---------------------------- MODULE Spec2Model ----------------------------
(***************************************************************************)
(* Verification model of the parse-pact parser generator                   *)
(* (src/unnamed/part_000, the single header of the library).               *)
(*                                                                         *)
(* Three specifications share this module:                                 *)
(*   SpecRanges  - the character-range algebra (MergedCharRanges,          *)
(*                 UnmergedCharRanges);                                    *)
(*   SpecRegex   - the regex parser, the followpos DFA builder and the     *)
(*                 scanner runtime;                                        *)
(*   SpecGrammar - the grammar pipeline of Grammar::Grammar, from the      *)
(*                 meta-parser's statements to the LALR tables and the     *)
(*                 composite scanner.                                      *)
(* Characters are the integer codes of the C++ `char` (signed, 8 bit).     *)
(***************************************************************************)
EXTENDS Integers, Sequences, FiniteSets, TLC

VARIABLES
  rangesKind,   \* which range object the run exercises: "merged" or "unmerged"
  ranges,       \* the object's `ranges` vector
  inserted,     \* history: the ranges passed to set(), in call order
  regexTokens,       \* the RegexToken list given to createParserFromRegex
  parseTree,         \* the annotated parse tree, in node id order
  dStateLabels,      \* createFromParseTree: labels of the dStates found so far
  acceptingDStates,  \* createFromParseTree: (iDState, iToken) pairs
  transitions,       \* DynamicRegexParser::transitions
  iDState,           \* createFromParseTree: index of the outer loop
  dStates,           \* DynamicRegexParser::dStates
  pcR,               \* position of the regex run
  regexError,        \* message passed to errorEmitter, "" when none
  input,             \* parse: the string_view given to parse
  nRemoved,          \* parse: number of remove_prefix(1) done on v
  dState,            \* parse: current dState
  parseResult,       \* parse: the returned optional<ParseResult>
  grammar,             \* the statements of the grammar text given to Grammar
  symbols,             \* Grammar::symbols
  productions,         \* Grammar::productions
  currentPrecedence,   \* Grammar::currentPrecedence
  whitespaceTokens,    \* Grammar::whitespaceTokens
  items,               \* Grammar::items
  stateItems,          \* Grammar::stateItems, the iItems of each state
  stateTransitions,    \* Grammar::stateTransitions
  lookaheads,          \* Grammar::lookaheads
  iLookaheadsToInsert, \* propagateLookaheads: the frontier of the current round
  nextLookaheads,      \* propagateLookaheads: the frontier of the next round
  iLoop,               \* index of the running loop of the current stage
  iGotoSymbol,         \* generateStates: index of the loop on the symbols
  iReduce,             \* generateTransitions: the (iState,iIItem,iSymbol) treated last
  pcG,                 \* the constructor stage to run next
  grammarError,        \* message passed to errorEmitter, "" when none
  nInsert,             \* history: BitSet::insert calls of propagateLookaheads
  matchingRef,      \* Matching::ref, the part of the text not consumed yet
  matchingBack,     \* Matching::ref when the last operation was called
  matchingCall,     \* the Matching operation called last, "none" at first
  matchingFailed,   \* the last operation returned false, '\0' or an empty view
  matchingError     \* message passed to errorEmitter, "" when none

rangeVars == <<rangesKind, ranges, inserted>>

regexVars == <<regexTokens, parseTree, dStateLabels, acceptingDStates, transitions,
               iDState, dStates, pcR, regexError, input, nRemoved, dState,
               parseResult>>

grammarVars == <<grammar, symbols, productions, currentPrecedence,
                 whitespaceTokens, items, stateItems, stateTransitions,
                 lookaheads, iLookaheadsToInsert, nextLookaheads, iLoop,
                 iGotoSymbol, iReduce, pcG, grammarError, nInsert>>

matchVars == <<matchingRef, matchingBack, matchingCall, matchingFailed,
               matchingError>>

-----------------------------------------------------------------------------
(* Generic helpers on sequences (std::vector operations)                    *)

\* std::vector::insert(begin()+(i-1), x)
InsertAt(s, i, x) == SubSeq(s, 1, i - 1) \o <<x>> \o SubSeq(s, i, Len(s))

\* std::vector::erase(begin()+(i-1))
EraseAt(s, i) == SubSeq(s, 1, i - 1) \o SubSeq(s, i + 1, Len(s))

\* the vector holding f[1], ..., f[Len(f)], as an explicit tuple
Vector(f) == SubSeq(f, 1, Len(f))

Min(a, b) == IF a < b THEN a ELSE b

Max(a, b) == IF a > b THEN a ELSE b

\* std::find: index of the first occurrence of x in s, 0 when absent
Find(s, x) ==
  IF \E i \in 1 .. Len(s) : s[i] = x
  THEN CHOOSE i \in 1 .. Len(s) : s[i] = x /\ \A j \in 1 .. i - 1 : s[j] # x
  ELSE 0

\* maybeAddToUniqueVector: the vector after the call
maybeAddToUniqueVector(v, x) == IF Find(v, x) = 0 THEN Append(v, x) ELSE v

\* maybeAddToUniqueVector: the index returned (.second), 1-based
IndexAfterAdd(v, x) == IF Find(v, x) = 0 THEN Len(v) + 1 ELSE Find(v, x)

\* the positions of xs that hold an element v does not hold, at its first
\* occurrence in xs
NewPositions(v, xs) ==
  SelectSeq(Vector([k \in 1 .. Len(xs) |-> k]),
            LAMBDA k : Find(v, xs[k]) = 0 /\ \A j \in 1 .. k - 1 : xs[j] # xs[k])

ElementsAt(xs, at) == Vector([n \in 1 .. Len(at) |-> xs[at[n]]])

\* maybeAddToUniqueVector of every element of xs in turn: v is followed by the
\* elements of xs it does not hold, each once, in the order they are met
AddAllUnique(v, xs) == v \o ElementsAt(xs, NewPositions(v, xs))

SeqToSet(s) == {s[i] : i \in 1 .. Len(s)}

-----------------------------------------------------------------------------
(* Character-range algebra                                                  *)

\* bounds of the range runs
MaxChar == 5
MaxInserts == 3

\* std::numeric_limits<char>::max()
CharMax == 127

\* UnmergedCharRanges::set, first loop: first position whose delimiter is
\* not below b
RECURSIVE SkipBelow(_, _, _)
SkipBelow(rs, cur, b) ==
  IF cur <= Len(rs) /\ rs[cur].first < b THEN SkipBelow(rs, cur + 1, b)
  ELSE cur

\* UnmergedCharRanges::set; on an empty list both loops end at once and the
\* two delimiters are inserted
UnmergedCharRangesSet(rs, b, e) ==
  IF rs = <<>>
  THEN <<[first |-> b, second |-> TRUE], [first |-> e, second |-> FALSE]>>
  ELSE
  LET cur1 == SkipBelow(rs, 1, b)
      startNewRange1 == IF cur1 > 1 THEN rs[cur1 - 1].second ELSE FALSE
      bPresent == cur1 <= Len(rs) /\ rs[cur1].first = b
      rs2 == IF bPresent THEN rs
             ELSE InsertAt(rs, cur1, [first |-> b, second |-> TRUE])
      cur2 == IF bPresent THEN cur1 ELSE cur1 + 1
      cur3 == SkipBelow(rs2, cur2, e)
      startNewRange3 == IF cur3 > cur2 THEN rs2[cur3 - 1].second
                        ELSE startNewRange1
      rs3 == Vector([i \in 1 .. Len(rs2) |->
                IF i >= cur2 /\ i < cur3
                THEN [first |-> rs2[i].first, second |-> TRUE]
                ELSE rs2[i]])
      ePresent == cur3 <= Len(rs3) /\ rs3[cur3].first = e
  IN IF ePresent THEN rs3
     ELSE InsertAt(rs3, cur3, [first |-> e, second |-> startNewRange3])

\* variant of onAllRanges that also hands over the gaps between the ranges
RECURSIVE UnmergedFromWithGaps(_, _)
UnmergedFromWithGaps(rs, iRangeBeg) ==
  IF iRangeBeg + 1 <= Len(rs)
  THEN <<[b |-> rs[iRangeBeg].first, e |-> rs[iRangeBeg + 1].first]>>
       \o UnmergedFromWithGaps(rs, iRangeBeg + 1)
  ELSE <<>>

\* UnmergedCharRanges::onAllRanges: the (b,e) pairs handed to f, in order
RECURSIVE UnmergedFrom(_, _)
UnmergedFrom(rs, iRangeBeg) ==
  IF iRangeBeg + 1 <= Len(rs)
  THEN <<[b |-> rs[iRangeBeg].first, e |-> rs[iRangeBeg + 1].first]>>
       \o UnmergedFrom(rs, IF rs[iRangeBeg + 1].second THEN iRangeBeg + 1
                           ELSE iRangeBeg + 2)
  ELSE <<>>

UnmergedOnAllRanges(rs) == UnmergedFrom(rs, 1)

\* MergedCharRanges::set, first loop: skip the ranges ending before b
RECURSIVE SkipEndingBefore(_, _, _)
SkipEndingBefore(rs, cur, b) ==
  IF cur <= Len(rs) /\ rs[cur].second < b
  THEN SkipEndingBefore(rs, cur + 1, b)
  ELSE cur

\* MergedCharRanges::set, inner while: absorb the following ranges reached
RECURSIVE AbsorbRight(_, _)
AbsorbRight(rs, cur) ==
  IF cur + 1 <= Len(rs) /\ rs[cur].second >= rs[cur + 1].first
  THEN AbsorbRight(
         EraseAt([rs EXCEPT ![cur].second = Max(rs[cur].second, rs[cur + 1].second)],
                 cur + 1),
         cur)
  ELSE rs

\* variant of set that stores the range without merging it
MergedCharRangesSetNoMerge(rs, b, e) == Append(rs, [first |-> b, second |-> e])

\* variant of set that forgets the ranges stored before
MergedCharRangesSetLast(rs, b, e) == <<[first |-> b, second |-> e]>>

\* MergedCharRanges::set
MergedCharRangesSet(rs, b, e) ==
  LET cur == SkipEndingBefore(rs, 1, b)
  IN IF cur > Len(rs) \/ e < rs[cur].first
     THEN InsertAt(rs, cur, [first |-> b, second |-> e])
     ELSE LET rsL == IF rs[cur].first > b
                     THEN [rs EXCEPT ![cur].first = Min(rs[cur].first, b)]
                     ELSE rs
          IN IF rsL[cur].second < e
             THEN AbsorbRight([rsL EXCEPT ![cur].second = e], cur)
             ELSE rsL

\* MergedCharRanges::negate, the loop over the ranges
RECURSIVE NegateFrom(_, _, _)
NegateFrom(rs, i, prevEnd) ==
  IF i > Len(rs)
  THEN IF prevEnd < CharMax
       THEN <<[first |-> prevEnd, second |-> CharMax]>>
       ELSE <<>>
  ELSE (IF prevEnd # rs[i].first
        THEN <<[first |-> prevEnd, second |-> rs[i].first]>>
        ELSE <<>>)
       \o NegateFrom(rs, i + 1, rs[i].second)

\* MergedCharRanges::negate
MergedCharRangesNegate(rs) == NegateFrom(rs, 1, 1)

\* MergedCharRanges::onAllRanges: the (b,e) pairs handed to f, in order
MergedOnAllRanges(rs) == Vector([i \in 1 .. Len(rs) |-> [b |-> rs[i].first, e |-> rs[i].second]])

-----------------------------------------------------------------------------
(* Matching: the cursor over a text.  A text is the sequence of its char    *)
(* codes; `ref` is the part not consumed yet.                               *)

\* (char)(c+1) on the 8-bit signed char
CharSucc(c) == IF c = CharMax THEN -128 ELSE c + 1

\* std::string_view::find_first_of(c)!=npos
InStr(filt, c) == \E i \in 1 .. Len(filt) : filt[i] = c

\* maybeEscape
maybeEscape(c) ==
  CASE c = 98 -> 8      \* 'b' -> '\b'
    [] c = 110 -> 10    \* 'n' -> '\n'
    [] c = 102 -> 12    \* 'f' -> '\f'
    [] c = 114 -> 13    \* 'r' -> '\r'
    [] c = 116 -> 9     \* 't' -> '\t'
    [] OTHER -> c

\* Matching::matchAnyChar
matchAnyChar(ref) ==
  IF ref # <<>> THEN [c |-> Head(ref), ref |-> Tail(ref)]
  ELSE [c |-> 0, ref |-> ref]

\* Matching::matchChar
matchChar(ref, c) ==
  IF ref # <<>> /\ Head(ref) = c THEN [ok |-> TRUE, ref |-> Tail(ref)]
  ELSE [ok |-> FALSE, ref |-> ref]

\* Matching::matchCharNotIn
matchCharNotIn(ref, filt) ==
  IF ref # <<>> /\ ~InStr(filt, Head(ref))
  THEN [c |-> Head(ref), ref |-> Tail(ref)]
  ELSE [c |-> 0, ref |-> ref]

\* Matching::matchAnyCharIn
matchAnyCharIn(ref, filt) ==
  IF ref # <<>> /\ InStr(filt, Head(ref))
  THEN [c |-> Head(ref), ref |-> Tail(ref)]
  ELSE [c |-> 0, ref |-> ref]

\* Matching::matchPossiblyEscapedCharNotIn: the char returned ('\0' = 0 when
\* nothing is matched) and the cursor the call leaves
matchPossiblyEscapedCharNotIn(ref, notIn) ==
  LET m == matchCharNotIn(ref, notIn)
  IN IF m.c # 0
     THEN IF m.c = 92   \* '\\'
          THEN LET a == matchAnyChar(m.ref)
               IN [c |-> maybeEscape(a.c), ref |-> a.ref]
          ELSE m
     ELSE m

\* Matching::matchStr, the loop: whether str is a prefix of ref
RECURSIVE StartsWithStr(_, _)
StartsWithStr(ref, str) ==
  IF str = <<>> THEN TRUE
  ELSE IF ref = <<>> THEN FALSE
  ELSE IF Head(ref) = Head(str) THEN StartsWithStr(Tail(ref), Tail(str))
  ELSE FALSE

\* Matching::matchStr (the undoer rewinds a partial match)
matchStr(ref, str) ==
  IF StartsWithStr(ref, str)
  THEN [ok |-> TRUE, ref |-> SubSeq(ref, Len(str) + 1, Len(ref))]
  ELSE [ok |-> FALSE, ref |-> ref]

-----------------------------------------------------------------------------
(* Regex parse tree                                                         *)

\* RegexParserNode{type,subNodes,begChar,endChar,tokId}
Node(type, subNodes, begChar, endChar, tokId) ==
  [type |-> type, subNodes |-> subNodes, begChar |-> begChar,
   endChar |-> endChar, tokId |-> tokId]

\* the empty std::optional<RegexParserNode>
NoNode == Node("NONE", <<>>, 0, 0, 0)

\* what dereferencing an empty optional yields (undefined behaviour)
UndefinedNode == Node("UNDEFINED", <<>>, 0, 0, 0)

\* BaseCharRanges::set(const char*): one range per char of the string
CharsToRanges(str) == Vector([i \in 1 .. Len(str) |-> [b |-> str[i], e |-> CharSucc(str[i])]])

\* CharClasses: lower, upper, digit, alpha, alnum, word
lower == <<[b |-> 97, e |-> 123]>>

upper == <<[b |-> 65, e |-> 91]>>

digit == <<[b |-> 48, e |-> 58]>>

alpha == lower \o upper

alnum == alpha \o digit

word == alnum \o CharsToRanges(<<95>>)

\* CharClasses::classes, each class as the list of ranges its set() inserts
classes ==
  <<[name |-> <<91, 58, 97, 108, 110, 117, 109, 58, 93>>, second |-> alnum],
    [name |-> <<91, 58, 119, 111, 114, 100, 58, 93>>, second |-> word],
    [name |-> <<91, 58, 97, 108, 112, 104, 97, 58, 93>>, second |-> alpha],
    [name |-> <<91, 58, 98, 108, 97, 110, 107, 58, 93>>, second |-> CharsToRanges(<<32, 9>>)],
    [name |-> <<91, 58, 99, 110, 116, 114, 108, 58, 93>>, second |-> <<[b |-> 1, e |-> 32], [b |-> 127, e |-> -128]>>],
    [name |-> <<91, 58, 100, 105, 103, 105, 116, 58, 93>>, second |-> digit],
    [name |-> <<91, 58, 103, 114, 97, 112, 104, 58, 93>>, second |-> <<[b |-> 33, e |-> 127]>>],
    [name |-> <<91, 58, 108, 111, 119, 101, 114, 58, 93>>, second |-> lower],
    [name |-> <<91, 58, 112, 114, 105, 110, 116, 58, 93>>, second |-> <<[b |-> 32, e |-> 127]>>],
    [name |-> <<91, 58, 112, 117, 110, 99, 116, 58, 93>>, second |-> CharsToRanges(<<45, 33, 34, 35, 36, 37, 38, 39, 40, 41, 42, 43, 44, 46, 47, 58, 59, 60, 61, 62, 63, 64, 91, 92, 93, 95, 96, 123, 124, 125, 126>>)],
    [name |-> <<91, 58, 115, 112, 97, 99, 101, 58, 93>>, second |-> CharsToRanges(<<32, 9, 13, 10>>)],
    [name |-> <<91, 58, 117, 112, 112, 101, 114, 58, 93>>, second |-> upper],
    [name |-> <<91, 58, 120, 100, 105, 103, 105, 116, 58, 93>>, second |-> CharsToRanges(<<48, 49, 50, 51, 52, 53, 54, 55, 56, 57, 97, 98, 99, 100, 101, 102, 65, 66, 67, 68, 69, 70>>)]>>

\* BaseCharRanges::set on a tuple: set() of each range in turn
RECURSIVE MergedSetAll(_, _)
MergedSetAll(mc, rs) ==
  IF rs = <<>> THEN mc
  ELSE MergedSetAll(MergedCharRangesSet(mc, Head(rs).b, Head(rs).e), Tail(rs))

\* matchBracketExpr, the matchClass lambda: index of the first class whose
\* name is matched at ref, 0 when none
RECURSIVE matchClass(_, _)
matchClass(ref, i) ==
  IF i > Len(classes) THEN 0
  ELSE IF matchStr(ref, classes[i].name).ok THEN i
  ELSE matchClass(ref, i + 1)

\* matchBracketExpr, the while(matched) loop: the cursor and the matchable
\* chars it leaves
RECURSIVE BracketLoop(_, _)
BracketLoop(ref, mc) ==
  LET iClass == matchClass(ref, 1)
  IN IF iClass # 0
     THEN BracketLoop(matchStr(ref, classes[iClass].name).ref,
                      MergedSetAll(mc, classes[iClass].second))
     ELSE LET mb == matchPossiblyEscapedCharNotIn(ref, <<94, 93, 45>>)
          IN IF mb.c # 0
             THEN LET dash == matchChar(mb.ref, 45)
                      me == IF dash.ok
                            THEN matchPossiblyEscapedCharNotIn(dash.ref, <<94, 93, 45>>)
                            ELSE [c |-> 0, ref |-> mb.ref]
                  IN IF dash.ok /\ me.c # 0
                     THEN BracketLoop(me.ref, MergedCharRangesSet(mc, mb.c, me.c))
                     ELSE BracketLoop(mb.ref,
                                      MergedCharRangesSet(mc, mb.c, CharSucc(mb.c)))
             ELSE [ref |-> mb.ref, mc |-> mc]

\* matchBracketExpr, the onAllRanges lambda: a left-leaning OR of CHAR nodes
RECURSIVE BracketNodes(_, _, _)
BracketNodes(rs, i, res) ==
  IF i > Len(rs) THEN res
  ELSE LET tmp == Node("CHAR", <<>>, rs[i].first, rs[i].second, 0)
       IN BracketNodes(rs, i + 1,
                       IF res = NoNode THEN tmp
                       ELSE Node("OR", <<res, tmp>>, 0, 0, 0))

\* matchBracketExpr
matchBracketExpr(ref) ==
  LET open == matchChar(ref, 91)
  IN IF ~open.ok THEN [res |-> NoNode, ref |-> ref]
     ELSE LET neg == matchChar(open.ref, 94)
              d1 == matchChar(neg.ref, 45)
              mc1 == IF d1.ok THEN MergedCharRangesSet(<<>>, 45, 46) ELSE <<>>
              lp == BracketLoop(d1.ref, mc1)
              d2 == matchChar(lp.ref, 45)
              mc2 == IF d2.ok THEN MergedCharRangesSet(lp.mc, 45, 46) ELSE lp.mc
              close == matchChar(d2.ref, 93)
          IN IF close.ok
             THEN [res |-> BracketNodes(IF neg.ok THEN MergedCharRangesNegate(mc2)
                                        ELSE mc2, 1, NoNode),
                   ref |-> close.ref]
             ELSE [res |-> NoNode, ref |-> ref]

\* matchDot
matchDot(ref) ==
  LET m == matchChar(ref, 46)
  IN IF m.ok THEN [res |-> Node("CHAR", <<>>, 1, CharMax, 0), ref |-> m.ref]
     ELSE [res |-> NoNode, ref |-> ref]

\* matchAndParsePossiblyEscapedChar
matchAndParsePossiblyEscapedChar(ref) ==
  LET m == matchPossiblyEscapedCharNotIn(ref, <<124, 42, 43, 63, 40, 41>>)
  IN IF m.c # 0
     THEN [res |-> Node("CHAR", <<>>, m.c, CharSucc(m.c), 0), ref |-> m.ref]
     ELSE [res |-> NoNode, ref |-> m.ref]

RECURSIVE matchAndParsePossiblyOrredExpr(_)
RECURSIVE matchAndParsePossiblyAndedExpr(_)

\* matchSubExpr once '(' is matched and the inner expression s is parsed
SubExprClose(ref, s) ==
  IF s.res = NoNode THEN [res |-> NoNode, ref |-> s.ref]
  ELSE LET close == matchChar(s.ref, 41)
       IN IF close.ok THEN [res |-> s.res, ref |-> close.ref]
          ELSE [res |-> NoNode, ref |-> ref]

\* matchSubExpr: the undoer rewinds unless its state is left true
matchSubExpr(ref) ==
  LET open == matchChar(ref, 40)
  IN IF ~open.ok THEN [res |-> NoNode, ref |-> ref]
     ELSE SubExprClose(ref, matchAndParsePossiblyOrredExpr(open.ref))

\* matchAndParseExprWithPossiblePostfix, the postfix of the matched m
PossiblePostfix(m) ==
  IF m.res # NoNode
  THEN LET c == matchAnyCharIn(m.ref, <<43, 63, 42>>)
       IN IF c.c # 0
          THEN [res |-> Node(IF c.c = 43 THEN "NONZERO"
                             ELSE IF c.c = 63 THEN "OPT" ELSE "MANY",
                             <<m.res>>, 0, 0, 0),
                ref |-> c.ref]
          ELSE m
  ELSE m

\* matchAndParseExprWithPossiblePostfix, last alternative after m = matchDot
OrEscapedChar(m) ==
  IF m.res # NoNode THEN m ELSE matchAndParsePossiblyEscapedChar(m.ref)

\* matchAndParseExprWithPossiblePostfix, alternatives after m = matchSubExpr
OrDot(m) == IF m.res # NoNode THEN m ELSE OrEscapedChar(matchDot(m.ref))

\* matchAndParseExprWithPossiblePostfix, alternatives after m = matchBracketExpr
OrSubExpr(m) == IF m.res # NoNode THEN m ELSE OrDot(matchSubExpr(m.ref))

\* matchAndParseExprWithPossiblePostfix
matchAndParseExprWithPossiblePostfix(ref) ==
  PossiblePostfix(OrSubExpr(matchBracketExpr(ref)))

\* matchAndParsePossiblyAndedExpr, the result from lhs and the parsed rhs
AndedResult(lhs, rhs) ==
  IF rhs.res # NoNode
  THEN [res |-> Node("AND", <<lhs.res, rhs.res>>, 0, 0, 0), ref |-> rhs.ref]
  ELSE [res |-> lhs.res, ref |-> rhs.ref]

\* matchAndParsePossiblyAndedExpr once lhs is parsed
AndedRhs(lhs) ==
  IF lhs.res # NoNode
  THEN AndedResult(lhs, matchAndParsePossiblyAndedExpr(lhs.ref))
  ELSE lhs

\* matchAndParsePossiblyAndedExpr
matchAndParsePossiblyAndedExpr(ref) ==
  AndedRhs(matchAndParseExprWithPossiblePostfix(ref))

\* matchAndParsePossiblyOrredExpr, the result from lhs and the parsed rhs; with
\* no lhs the code dereferences an empty optional (UndefinedNode)
OrredResult(lhs, rhs) ==
  IF rhs.res # NoNode
  THEN [res |-> Node("OR", <<IF lhs.res = NoNode THEN UndefinedNode ELSE lhs.res,
                            rhs.res>>, 0, 0, 0),
        ref |-> rhs.ref]
  ELSE lhs

\* matchAndParsePossiblyOrredExpr once lhs is parsed: the undoer rewinds to the
\* end of lhs unless a rhs is parsed after '|'
OrredRhs(lhs) ==
  LET bar == matchChar(lhs.ref, 124)
  IN IF bar.ok THEN OrredResult(lhs, matchAndParsePossiblyAndedExpr(bar.ref))
     ELSE lhs

\* matchAndParsePossiblyOrredExpr
matchAndParsePossiblyOrredExpr(ref) ==
  OrredRhs(matchAndParsePossiblyAndedExpr(ref))

\* parseTreeFromRegex: the parse of every regex of the list
TokenTrees(toks) ==
  Vector([k \in 1 .. Len(toks) |-> matchAndParsePossiblyOrredExpr(toks[k].str)])

\* parseTreeFromRegex from pos on, trees holding the parse of every regex
RECURSIVE TreeFromRegex(_, _, _)
TreeFromRegex(toks, trees, pos) ==
  IF pos < Len(toks)
  THEN LET t == trees[pos + 1]
       IN IF t.res # NoNode /\ t.ref = <<>>
          THEN LET res == Node("AND",
                               <<t.res,
                                 Node("TOKEN", <<>>, 0, 0, toks[pos + 1].iSymbol)>>,
                               0, 0, 0)
               IN IF pos + 1 < Len(toks)
                  THEN LET n == TreeFromRegex(toks, trees, pos + 1)
                       IN IF n # NoNode THEN Node("OR", <<res, n>>, 0, 0, 0)
                          ELSE NoNode
                  ELSE res
          ELSE NoNode
  ELSE NoNode

\* parseTreeFromRegex
parseTreeFromRegex(toks, pos) == TreeFromRegex(toks, TokenTrees(toks), pos)

-----------------------------------------------------------------------------
(* Parse-tree attributes.  The tree is laid out in the order of the node    *)
(* ids given by setRecursivelyId (post-order); a node pointer is the        *)
(* 1-based position nodeId+1 in that layout.                                *)

\* RegexParserNode::setRecursivelyId: the nodes of the subtree in id order,
\* each with the ids of its subNodes; base is the number of ids given before
RECURSIVE Flatten(_, _)
Flatten(node, base) ==
  IF Len(node.subNodes) = 0
  THEN <<[type |-> node.type, sub |-> <<>>, begChar |-> node.begChar,
          endChar |-> node.endChar, tokId |-> node.tokId]>>
  ELSE IF Len(node.subNodes) = 1
  THEN LET c == Flatten(node.subNodes[1], base)
       IN c \o <<[type |-> node.type, sub |-> <<base + Len(c)>>,
                  begChar |-> node.begChar, endChar |-> node.endChar,
                  tokId |-> node.tokId]>>
  ELSE LET l == Flatten(node.subNodes[1], base)
           r == Flatten(node.subNodes[2], base + Len(l))
       IN l \o r \o <<[type |-> node.type,
                       sub |-> <<base + Len(l), base + Len(l) + Len(r)>>,
                       begChar |-> node.begChar, endChar |-> node.endChar,
                       tokId |-> node.tokId]>>

\* RegexParserNode::setNullable on the node of id i - 1: its nullable, the
\* subNodes' being set first
RECURSIVE setNullable(_, _)
NodeNullable(nodes, n) ==
  CASE n.type = "OR" -> setNullable(nodes, n.sub[1]) \/ setNullable(nodes, n.sub[2])
    [] n.type = "AND" -> setNullable(nodes, n.sub[1]) /\ setNullable(nodes, n.sub[2])
    [] n.type = "OPT" -> TRUE
    [] n.type = "MANY" -> TRUE
    [] n.type = "NONZERO" -> setNullable(nodes, n.sub[1])
    [] n.type = "CHAR" -> n.endChar = n.begChar
    [] n.type = "TOKEN" -> TRUE
    [] OTHER -> FALSE

setNullable(nodes, i) == NodeNullable(nodes, nodes[i])

\* RegexParserNode::setFirstsLasts on the node of id i - 1: its firsts
RECURSIVE setFirsts(_, _, _)
NodeFirsts(nodes, nul, n, i) ==
  CASE n.type = "OR" -> setFirsts(nodes, nul, n.sub[1]) \o setFirsts(nodes, nul, n.sub[2])
    [] n.type = "AND" -> setFirsts(nodes, nul, n.sub[1])
                         \o (IF nul[n.sub[1]] THEN setFirsts(nodes, nul, n.sub[2])
                             ELSE <<>>)
    [] n.type \in {"OPT", "MANY", "NONZERO"} -> setFirsts(nodes, nul, n.sub[1])
    [] OTHER -> <<i>>

setFirsts(nodes, nul, i) == NodeFirsts(nodes, nul, nodes[i], i)

\* RegexParserNode::setFirstsLasts on the node of id i - 1: its lasts
RECURSIVE setLasts(_, _, _)
NodeLasts(nodes, nul, n, i) ==
  CASE n.type = "OR" -> setLasts(nodes, nul, n.sub[1]) \o setLasts(nodes, nul, n.sub[2])
    [] n.type = "AND" -> setLasts(nodes, nul, n.sub[2])
                         \o (IF nul[n.sub[2]] THEN setLasts(nodes, nul, n.sub[1])
                             ELSE <<>>)
    [] n.type \in {"OPT", "MANY", "NONZERO"} -> setLasts(nodes, nul, n.sub[1])
    [] OTHER -> <<i>>

setLasts(nodes, nul, i) == NodeLasts(nodes, nul, nodes[i], i)

\* RegexParserNode::setFollows, the node's own step (after its subNodes'):
\* what node n (id i) appends to the follows of the leaf l
NodeFollows(n, i, firsts, lasts, l) ==
  IF n.type = "AND" /\ InStr(lasts[n.sub[1]], l) THEN firsts[n.sub[2]]
  ELSE IF n.type \in {"MANY", "NONZERO"} /\ InStr(lasts[n.sub[1]], l)
  THEN firsts[i]
  ELSE <<>>

\* a variant of setFollows without the calls on the subNodes
setFollowsOfNodeOnly(nodes, i, firsts, lasts, l) ==
  NodeFollows(nodes[i], i, firsts, lasts, l)

\* RegexParserNode::setFollows on the node of id i - 1: what the call appends
\* to the follows of the leaf l, the subNodes' calls coming first
RECURSIVE setFollows(_, _, _, _, _)
SubNodesFollows(nodes, sub, firsts, lasts, l) ==
  IF sub = <<>> THEN <<>>
  ELSE IF Len(sub) = 1 THEN setFollows(nodes, sub[1], firsts, lasts, l)
  ELSE setFollows(nodes, sub[1], firsts, lasts, l)
       \o setFollows(nodes, sub[2], firsts, lasts, l)

setFollows(nodes, i, firsts, lasts, l) ==
  SubNodesFollows(nodes, nodes[i].sub, firsts, lasts, l)
    \o NodeFollows(nodes[i], i, firsts, lasts, l)

\* the annotated nodes, from the attributes of every node; the root is the
\* last node of the layout
AnnotatedNodes(nodes, nul, firsts, lasts) ==
  Vector([i \in 1 .. Len(nodes) |->
     [type |-> nodes[i].type, begChar |-> nodes[i].begChar,
      endChar |-> nodes[i].endChar, tokId |-> nodes[i].tokId,
      nullable |-> nul[i], firsts |-> firsts[i], lasts |-> lasts[i],
      follows |-> setFollows(nodes, Len(nodes), firsts, lasts, i)]])

\* setFirstsLasts and setFollows, after setNullable
AnnotateNullable(nodes, nul) ==
  AnnotatedNodes(nodes, nul,
                 Vector([i \in 1 .. Len(nodes) |-> setFirsts(nodes, nul, i)]),
                 Vector([i \in 1 .. Len(nodes) |-> setLasts(nodes, nul, i)]))

\* setNullable, setFirstsLasts and setFollows, after setAllIds
AnnotateIds(nodes) ==
  AnnotateNullable(nodes, Vector([i \in 1 .. Len(nodes) |-> setNullable(nodes, i)]))

\* the annotated tree createFromParseTree works on: setAllIds, setNullable,
\* setFirstsLasts, setFollows
Annotate(root) == AnnotateIds(Flatten(root, 0))

-----------------------------------------------------------------------------
(* DynamicRegexParser::createFromParseTree, one dState label at a time      *)

\* the UnmergedCharRanges of a label: set() of the range of each of its
\* first n leaves in turn
RECURSIVE LabelRanges(_, _, _)
LabelRanges(tree, label, n) ==
  IF n = 0 THEN <<>>
  ELSE UnmergedCharRangesSet(LabelRanges(tree, label, n - 1),
                             tree[label[n]].begChar, tree[label[n]].endChar)

\* the onAllRanges lambda: label of the next dState for the range [b,e)
RECURSIVE NextLabel(_, _, _, _)
NextLabel(tree, label, b, e) ==
  IF label = <<>> THEN <<>>
  ELSE (IF b >= tree[Head(label)].begChar /\ e <= tree[Head(label)].endChar
        THEN tree[Head(label)].follows ELSE <<>>)
       \o NextLabel(tree, Tail(label), b, e)

\* variant of the list of the recognized tokens, in reverse order
RECURSIVE RecogTokensReversed(_, _)
RecogTokensReversed(tree, label) ==
  IF label = <<>> THEN <<>>
  ELSE RecogTokensReversed(tree, Tail(label))
       \o (IF tree[Head(label)].type = "TOKEN" THEN <<tree[Head(label)].tokId>>
           ELSE <<>>)

\* the onAllRanges lambda: list of the tokens recognized by the label
RECURSIVE RecogTokens(_, _)
RecogTokens(tree, label) ==
  IF label = <<>> THEN <<>>
  ELSE (IF tree[Head(label)].type = "TOKEN" THEN <<tree[Head(label)].tokId>>
        ELSE <<>>)
       \o RecogTokens(tree, Tail(label))

\* the onAllRanges lambda, search of the next dState: 0-based index of the
\* first label equal to nextDState, the number of labels when there is none
SearchLabel(labels, nextDState) ==
  IF Find(labels, nextDState) = 0 THEN Len(labels)
  ELSE Find(labels, nextDState) - 1

\* the onAllRanges lambda: the label of the next dState of every range
NextLabels(tree, label, rgs) ==
  Vector([k \in 1 .. Len(rgs) |-> NextLabel(tree, label, rgs[k].b, rgs[k].e)])

\* the number of ranges the lambda goes through: those before the first one
\* for which errorEmitter is called, all of them when there is none
RangesBeforeError(rgs, recogTokens) ==
  IF recogTokens = <<>> /\ \E k \in 1 .. Len(rgs) : rgs[k].b = rgs[k].e
  THEN (CHOOSE k \in 1 .. Len(rgs) :
          /\ rgs[k].b = rgs[k].e
          /\ \A j \in 1 .. k - 1 : rgs[j].b # rgs[j].e) - 1
  ELSE Len(rgs)

\* dStateLabels after the first n ranges: the label of a next dState that is
\* not empty and not found is pushed back
LabelsAfter(labels, nexts, n) ==
  AddAllUnique(labels, SelectSeq(SubSeq(nexts, 1, n), LAMBDA l : l # <<>>))

\* the transition pushed back for the range rg
TransitionOn(iD, rg, recogTokens, iNextDState) ==
  [iDStateFrom |-> iD, beg |-> rg.b, end |-> rg.e,
   nextDState |-> IF rg.b = rg.e THEN Head(recogTokens) ELSE iNextDState]

\* the onAllRanges lambda applied to the first n ranges of rgs in turn, and the
\* error raised on the next one when n is not their number; nexts holds the
\* labels of the next dStates, st the dStateLabels, acceptingDStates and
\* transitions before
OnRangesUpTo(iD, rgs, st, nexts, recogTokens, n) ==
  [dStateLabels |-> LabelsAfter(st.dStateLabels, nexts, n),
   acceptingDStates |->
     st.acceptingDStates
       \o (IF recogTokens # <<>>
           THEN Vector([k \in 1 .. n |-> [iDState |-> iD, iToken |-> Head(recogTokens)]])
           ELSE <<>>),
   transitions |->
     st.transitions
       \o Vector([k \in 1 .. n |->
             TransitionOn(iD, rgs[k], recogTokens,
                          SearchLabel(LabelsAfter(st.dStateLabels, nexts, k - 1),
                                      nexts[k]))]),
   error |-> IF n < Len(rgs) THEN "token not recognized when chars not accepted"
             ELSE ""]

OnRangesOf(iD, rgs, st, nexts, recogTokens) ==
  OnRangesUpTo(iD, rgs, st, nexts, recogTokens, RangesBeforeError(rgs, recogTokens))

\* the onAllRanges lambda applied to the ranges rgs in turn
OnRanges(tree, iD, rgs, st) ==
  OnRangesOf(iD, rgs, st, NextLabels(tree, st.dStateLabels[iD + 1], rgs),
             RecogTokens(tree, st.dStateLabels[iD + 1]))

\* variant of the loop body that hands the range of each leaf of the label to
\* the lambda as it is, without splitting the ranges at their delimiters
ProcessLabelPerLeaf(tree, iD, st) ==
  OnRanges(tree, iD,
           Vector([k \in 1 .. Len(st.dStateLabels[iD + 1]) |->
              [b |-> tree[st.dStateLabels[iD + 1][k]].begChar,
               e |-> tree[st.dStateLabels[iD + 1][k]].endChar]]),
           st)

\* body of the loop over iDState
ProcessLabel(tree, iD, st) ==
  OnRanges(tree, iD,
           UnmergedOnAllRanges(LabelRanges(tree, st.dStateLabels[iD + 1],
                                           Len(st.dStateLabels[iD + 1]))),
           st)

\* number of transitions leaving the dStates below iDState (the prefix sum)
TransitionsBefore(trs, iD) ==
  Cardinality({k \in 1 .. Len(trs) : trs[k].iDStateFrom < iD})

\* marking of the accepting dStates: the pairs are applied in order, so the
\* token of a dState is that of its last pair
MarkAccepting(dSts, acc) ==
  Vector([i \in 1 .. Len(dSts) |->
     IF \E k \in 1 .. Len(acc) : acc[k].iDState = i - 1
     THEN [dSts[i] EXCEPT
             !.accepting = TRUE,
             !.iToken = acc[CHOOSE k \in 1 .. Len(acc) :
                              /\ acc[k].iDState = i - 1
                              /\ \A j \in k + 1 .. Len(acc) : acc[j].iDState # i - 1].iToken]
     ELSE dSts[i]])

\* allocation of the dStates after the loop on the labels
AllocateDStates(nLabels, trs, acc) ==
  MarkAccepting(Vector([i \in 1 .. nLabels |->
                   [transitionsBegin |-> TransitionsBefore(trs, i - 1),
                    accepting |-> FALSE, iToken |-> 0]]),
                acc)

\* a variant of the search that tests the end of the range only
SearchTransitionBelowEnd(trs, trans, dS, c) ==
  IF \E k \in trans + 1 .. Len(trs) : trs[k].iDStateFrom # dS \/ trs[k].end > c
  THEN (CHOOSE k \in trans + 1 .. Len(trs) :
          /\ trs[k].iDStateFrom # dS \/ trs[k].end > c
          /\ \A j \in trans + 1 .. k - 1 : trs[j].iDStateFrom = dS /\ trs[j].end <= c) - 1
  ELSE Len(trs)

\* BaseRegexParser::parse, search of the transition: 0-based index of the first
\* transition of dState, from trans on, that holds c; that of the first
\* transition not of dState (or the number of transitions) when none does
RECURSIVE SearchTransition(_, _, _, _)
SearchTransition(trs, trans, dS, c) ==
  IF trans < Len(trs)
     /\ trs[trans + 1].iDStateFrom = dS
     /\ ~(trs[trans + 1].beg <= c /\ trs[trans + 1].end > c)
  THEN SearchTransition(trs, trans + 1, dS, c)
  ELSE trans

-----------------------------------------------------------------------------
(* SpecRanges: a fresh range object receives up to MaxInserts set() calls   *)

RangeInputs == {r \in [b : 0 .. MaxChar, e : 0 .. MaxChar] : r.b < r.e}

\* the range object is not exercised
IdleRanges == rangesKind = "idle" /\ ranges = <<>> /\ inserted = <<>>

\* no regex parser is under construction
IdleRegex ==
  /\ regexTokens = <<>> /\ parseTree = <<>> /\ dStateLabels = <<>>
  /\ acceptingDStates = <<>> /\ transitions = <<>> /\ iDState = 0
  /\ dStates = <<>> /\ pcR = "idle" /\ regexError = "" /\ input = <<>>
  /\ nRemoved = 0 /\ dState = 0 /\ parseResult = [matched |-> FALSE]

\* no grammar is under construction
IdleGrammar ==
  /\ grammar = <<>> /\ symbols = <<>> /\ productions = <<>>
  /\ currentPrecedence = 0 /\ whitespaceTokens = <<>> /\ items = <<>>
  /\ stateItems = <<>> /\ stateTransitions = <<>> /\ lookaheads = <<>>
  /\ iLookaheadsToInsert = <<>> /\ nextLookaheads = <<>> /\ iLoop = 0
  /\ iGotoSymbol = 0
  /\ iReduce = <<>> /\ pcG = "idle"
  /\ grammarError = "" /\ nInsert = 0

\* no Matching is at work
IdleMatching ==
  /\ matchingRef = <<>> /\ matchingBack = <<>> /\ matchingCall = "none"
  /\ matchingFailed = FALSE /\ matchingError = ""

InitRanges ==
  /\ rangesKind \in {"merged", "unmerged"}
  /\ ranges = <<>>
  /\ inserted = <<>>
  /\ IdleRegex
  /\ IdleGrammar
  /\ IdleMatching

MergedSet ==
  /\ rangesKind = "merged"
  /\ Len(inserted) < MaxInserts
  /\ \E r \in RangeInputs :
       /\ ranges' = MergedCharRangesSet(ranges, r.b, r.e)
       /\ inserted' = Append(inserted, r)
  /\ UNCHANGED <<rangesKind, regexVars, grammarVars, matchVars>>

UnmergedSet ==
  /\ rangesKind = "unmerged"
  /\ Len(inserted) < MaxInserts
  /\ \E r \in RangeInputs :
       /\ ranges' = UnmergedCharRangesSet(ranges, r.b, r.e)
       /\ inserted' = Append(inserted, r)
  /\ UNCHANGED <<rangesKind, regexVars, grammarVars, matchVars>>

NextRanges == MergedSet \/ UnmergedSet

vars == <<rangeVars, regexVars, grammarVars, matchVars>>

SpecRanges == InitRanges /\ [][NextRanges]_vars

\* characters of the half-open range [b,e)
Chars(b, e) == {c \in 0 .. CharMax : b <= c /\ c < e}

\* characters covered by the ranges inserted so far
InsertedChars == UNION {Chars(inserted[k].b, inserted[k].e) : k \in 1 .. Len(inserted)}

\* C9: after any sequence of MergedCharRanges insertions of non-empty ranges
\* the stored list is sorted, pairwise disjoint, non-touching, made of
\* non-empty intervals, and covers exactly the inserted characters.
C9_MergedCanonical ==
  rangesKind = "merged" =>
    /\ \A i \in 1 .. Len(ranges) : ranges[i].first < ranges[i].second
    /\ \A i \in 1 .. Len(ranges) - 1 : ranges[i].second < ranges[i + 1].first
    /\ UNION {Chars(ranges[i].first, ranges[i].second) : i \in 1 .. Len(ranges)}
         = InsertedChars

\* C9 witness: two separated ranges were bridged by a later insertion
C9_Witness ==
  /\ rangesKind = "merged"
  /\ Len(inserted) = 3
  /\ inserted[1].e < inserted[2].b
  /\ inserted[3].b = inserted[1].e
  /\ inserted[3].e = inserted[2].b
  /\ Len(ranges) = 1

\* C10: every sub-interval enumerated by onAllRanges lies inside an inserted
\* range, and every inserted range is exactly the union of the enumerated
\* sub-intervals lying inside it.
C10_UnmergedRefinement ==
  rangesKind = "unmerged" =>
    LET subs == UnmergedOnAllRanges(ranges)
    IN /\ \A k \in 1 .. Len(subs) :
            \E j \in 1 .. Len(inserted) :
              inserted[j].b <= subs[k].b /\ subs[k].e <= inserted[j].e
       /\ \A j \in 1 .. Len(inserted) :
            Chars(inserted[j].b, inserted[j].e)
              = UNION {Chars(subs[k].b, subs[k].e) :
                         k \in {k \in 1 .. Len(subs) :
                                  inserted[j].b <= subs[k].b /\ subs[k].e <= inserted[j].e}}

\* C10 witness: overlapping and separated ranges inserted, a gap is skipped
C10_Witness ==
  /\ rangesKind = "unmerged"
  /\ Len(inserted) = 3
  /\ inserted[1].b < inserted[2].b /\ inserted[2].b < inserted[1].e
  /\ inserted[1].e < inserted[2].e
  /\ inserted[3].e < inserted[1].b
  /\ Len(UnmergedOnAllRanges(ranges)) = 4

-----------------------------------------------------------------------------
(* Matching: comments, literals and identifiers                             *)

\* charMultiMatches on a tuple of ranges
charMultiMatches(c, rgs) == \E i \in 1 .. Len(rgs) : rgs[i].b <= c /\ c < rgs[i].e

\* number of leading chars of ref that are not in filt
RECURSIVE LeadingNotIn(_, _)
LeadingNotIn(ref, filt) ==
  IF ref # <<>> /\ ~InStr(filt, Head(ref)) THEN 1 + LeadingNotIn(Tail(ref), filt)
  ELSE 0

\* Matching::matchLineComment: the chars after "//" are skipped up to the end
\* of the line
matchLineComment(ref) ==
  LET m == matchStr(ref, <<47, 47>>)
  IN IF m.ok
     THEN [ok |-> TRUE,
           ref |-> SubSeq(m.ref, LeadingNotIn(m.ref, <<10, 13>>) + 1, Len(m.ref))]
     ELSE [ok |-> FALSE, ref |-> m.ref]

\* matchChar('*') and matchChar('/'): the second is tried only after the first
matchStarSlash(ref) ==
  LET star == matchChar(ref, 42)
  IN IF star.ok THEN matchChar(star.ref, 47) ELSE star

\* Matching::matchBlockComment, the while loop; res is the value res holds when
\* the condition is evaluated.  advance() on an empty view is undefined
\* behaviour: `undefined` tells that the loop ran into it
RECURSIVE BlockCommentLoop(_, _)
BlockCommentLoop(ref, res) ==
  IF ref = <<>> THEN [ok |-> res, ref |-> ref, undefined |-> FALSE]
  ELSE LET m == matchStarSlash(ref)
       IN IF m.ok THEN [ok |-> TRUE, ref |-> m.ref, undefined |-> FALSE]
          ELSE IF m.ref = <<>> THEN [ok |-> FALSE, ref |-> m.ref, undefined |-> TRUE]
          ELSE BlockCommentLoop(Tail(m.ref), FALSE)

\* Matching::matchBlockComment
matchBlockComment(ref) ==
  LET m == matchStr(ref, <<47, 42>>)
  IN IF m.ok THEN BlockCommentLoop(m.ref, TRUE)
     ELSE [ok |-> FALSE, ref |-> m.ref, undefined |-> FALSE]

\* Matching::matchWhiteSpaceOrComments, the while loop from ref on; res is the
\* value of res so far
RECURSIVE WhiteSpaceOrCommentsLoop(_, _)
WhiteSpaceOrCommentsLoop(ref, res) ==
  LET sp == matchAnyCharIn(ref, <<32, 12, 10, 13, 9, 11>>)
      line == matchLineComment(ref)
      block == matchBlockComment(ref)
  IN IF sp.c # 0 THEN WhiteSpaceOrCommentsLoop(sp.ref, TRUE)
     ELSE IF line.ok THEN WhiteSpaceOrCommentsLoop(line.ref, TRUE)
     ELSE IF block.undefined THEN block
     ELSE IF block.ok THEN WhiteSpaceOrCommentsLoop(block.ref, TRUE)
     ELSE [ok |-> res, ref |-> block.ref, undefined |-> FALSE]

\* Matching::matchWhiteSpaceOrComments
matchWhiteSpaceOrComments(ref) == WhiteSpaceOrCommentsLoop(ref, FALSE)

\* Matching::matchLiteralOrRegex, the do-while loop: c is the char matched by
\* the turn before ('\0' at first); the cursor the loop leaves, or the error
RECURSIVE LiteralOrRegexLoop(_, _, _)
LiteralOrRegexLoop(ref, delim, c) ==
  IF ref = <<>> \/ matchAnyCharIn(ref, <<10, 13>>).c # 0
  THEN [ref |-> ref, error |-> "Unterminated literal or regex"]
  ELSE IF c = 92 \/ Head(ref) # delim
  THEN LiteralOrRegexLoop(Tail(ref), delim, Head(ref))
  ELSE [ref |-> Tail(ref), error |-> ""]

\* Matching::matchLiteralOrRegex once the opening delimiter is matched at beg
\* and the loop is over: the view returned lies between the two delimiters
LiteralOrRegexEnd(beg, lp) ==
  IF lp.error # "" THEN [str |-> <<>>, ref |-> lp.ref, error |-> lp.error]
  ELSE IF Len(beg) - Len(lp.ref) = 2
  THEN [str |-> <<>>, ref |-> lp.ref, error |-> "Empty literal or regex"]
  ELSE [str |-> SubSeq(beg, 2, Len(beg) - Len(lp.ref) - 1), ref |-> lp.ref,
        error |-> ""]

\* Matching::matchLiteralOrRegex: the view returned (empty when not matched, the
\* undoer then rewinds), the cursor and the message given to errorEmitter
matchLiteralOrRegex(ref, delim) ==
  IF matchChar(ref, delim).ok
  THEN LiteralOrRegexEnd(ref, LiteralOrRegexLoop(Tail(ref), delim, 0))
  ELSE [str |-> <<>>, ref |-> ref, error |-> ""]

\* Matching::matchLiteral
matchLiteral(ref) == matchLiteralOrRegex(ref, 39)

\* Matching::matchRegex
matchRegex(ref) == matchLiteralOrRegex(ref, 34)

\* number of leading chars of ref that are in the class WORD
RECURSIVE LeadingWord(_)
LeadingWord(ref) ==
  IF ref # <<>> /\ charMultiMatches(Head(ref), word) THEN 1 + LeadingWord(Tail(ref))
  ELSE 0

\* Matching::matchId: the view returned (empty when not matched) and the cursor
matchId(ref) ==
  IF ref # <<>> /\ charMultiMatches(Head(ref), alpha \o CharsToRanges(<<95>>))
  THEN [str |-> SubSeq(ref, 1, 1 + LeadingWord(Tail(ref))),
        ref |-> SubSeq(ref, 2 + LeadingWord(Tail(ref)), Len(ref))]
  ELSE [str |-> <<>>, ref |-> ref]

-----------------------------------------------------------------------------
(* SpecMatching: a Matching over a short text receives any sequence of      *)
(* calls of its operations                                                  *)

MaxTextLen == 4

\* the chars of the texts: / * \ a space newline ' "
TextChars == {47, 42, 92, 97, 32, 10, 39, 34}

\* block comments whose body ends with '*': "/***/", "/* a **/", "/*a**/ a"
StarCommentTexts == {<<47, 42, 42, 42, 47>>,
                     <<47, 42, 32, 97, 32, 42, 42, 47>>,
                     <<47, 42, 97, 42, 42, 47, 32, 97>>}

Texts == UNION {[1 .. k -> TextChars] : k \in 0 .. MaxTextLen} \cup StarCommentTexts

\* the strings given to matchStr: the comment openers and "a*"
MatchStrs == {<<47, 47>>, <<47, 42>>, <<97, 42>>}

\* the filters given to matchPossiblyEscapedCharNotIn by the regex parser:
\* "^]-" and "|*+?()"
NotInFilters == {<<94, 93, 45>>, <<124, 42, 43, 63, 40, 41>>}

\* Matching::Matching
InitMatching ==
  /\ IdleRanges
  /\ IdleRegex
  /\ IdleGrammar
  /\ matchingRef \in Texts
  /\ matchingBack = matchingRef
  /\ matchingCall = "none"
  /\ matchingFailed = FALSE
  /\ matchingError = ""

\* the operation name returns: failed tells that it reports a failure, newRef
\* is the cursor it leaves, error the message given to errorEmitter
MatchingReturns(name, failed, newRef, error) ==
  /\ matchingError = ""
  /\ matchingCall' = name
  /\ matchingBack' = matchingRef
  /\ matchingFailed' = failed
  /\ matchingRef' = newRef
  /\ matchingError' = error
  /\ UNCHANGED <<rangeVars, regexVars, grammarVars>>

\* the operation name runs into undefined behaviour: any outcome
MatchingUndefined(name) ==
  /\ matchingError = ""
  /\ matchingCall' = name
  /\ matchingBack' = matchingRef
  /\ matchingFailed' \in BOOLEAN
  /\ matchingRef' = <<>>
  /\ matchingError' = "undefined behaviour"
  /\ UNCHANGED <<rangeVars, regexVars, grammarVars>>

MatchStr ==
  \E str \in MatchStrs :
    MatchingReturns("matchStr", ~matchStr(matchingRef, str).ok,
                    matchStr(matchingRef, str).ref, "")

MatchPossiblyEscapedCharNotIn ==
  \E notIn \in NotInFilters :
    MatchingReturns("matchPossiblyEscapedCharNotIn",
                    matchPossiblyEscapedCharNotIn(matchingRef, notIn).c = 0,
                    matchPossiblyEscapedCharNotIn(matchingRef, notIn).ref, "")

MatchLineComment ==
  MatchingReturns("matchLineComment", ~matchLineComment(matchingRef).ok,
                  matchLineComment(matchingRef).ref, "")

MatchBlockComment ==
  IF matchBlockComment(matchingRef).undefined
  THEN MatchingUndefined("matchBlockComment")
  ELSE MatchingReturns("matchBlockComment", ~matchBlockComment(matchingRef).ok,
                       matchBlockComment(matchingRef).ref, "")

MatchWhiteSpaceOrComments ==
  IF matchWhiteSpaceOrComments(matchingRef).undefined
  THEN MatchingUndefined("matchWhiteSpaceOrComments")
  ELSE MatchingReturns("matchWhiteSpaceOrComments",
                       ~matchWhiteSpaceOrComments(matchingRef).ok,
                       matchWhiteSpaceOrComments(matchingRef).ref, "")

MatchLiteral ==
  MatchingReturns("matchLiteral", matchLiteral(matchingRef).str = <<>>,
                  matchLiteral(matchingRef).ref, matchLiteral(matchingRef).error)

MatchRegex ==
  MatchingReturns("matchRegex", matchRegex(matchingRef).str = <<>>,
                  matchRegex(matchingRef).ref, matchRegex(matchingRef).error)

MatchId ==
  MatchingReturns("matchId", matchId(matchingRef).str = <<>>,
                  matchId(matchingRef).ref, "")

NextMatching ==
  \/ MatchStr
  \/ MatchPossiblyEscapedCharNotIn
  \/ MatchLineComment
  \/ MatchBlockComment
  \/ MatchWhiteSpaceOrComments
  \/ MatchLiteral
  \/ MatchRegex
  \/ MatchId

SpecMatching == InitMatching /\ [][NextMatching]_vars

\* C12, as stated: whenever matchStr, matchId, matchLiteral, matchRegex,
\* matchPossiblyEscapedCharNotIn, matchLineComment, matchBlockComment or
\* matchWhiteSpaceOrComments returns a failure (false, '\0' or an empty view)
\* the cursor is where it was before the call.
C12_AsStated ==
  (matchingCall # "none" /\ matchingError = "" /\ matchingFailed) =>
    matchingRef = matchingBack

-----------------------------------------------------------------------------
(* SpecRegex: createParserFromRegex on a list of patterns, then parse()     *)
(* calls on the parser built                                                *)

MaxPatterns == 2
MaxInputLen == 3
MaxDStates == 30
MaxLabelLen == 24

\* patterns of the unit test (test.cpp): integer, real, text without 'h'
jsonNumberPattern == <<40, 92, 43, 124, 92, 45, 41, 63, 91, 48, 45, 57, 93, 43>>
jsonRealNumberPattern ==
  <<40, 92, 43, 124, 92, 45, 41, 63, 91, 48, 45, 57, 93, 43, 40, 92, 46,
      91, 48, 45, 57, 93, 43, 41, 63, 40, 40, 101, 124, 69, 41, 40, 92,
      43, 124, 92, 45, 41, 63, 91, 48, 45, 57, 93, 43, 41, 63>>
testNotContainingHPattern == <<91, 94, 104, 93, 43>>

\* inputs of the unit test: "33", "-332.235e-34", "ello world!"
TestInputs == {<<51, 51>>,
               <<45, 51, 51, 50, 46, 50, 51, 53, 101, 45, 51, 52>>,
               <<101, 108, 108, 111, 32, 119, 111, 114, 108, 100, 33>>}

\* the bracket expression "[a-gi-me-j]" and the inputs "a","f","h","j","k"
BracketPattern == <<91, 97, 45, 103, 105, 45, 109, 101, 45, 106, 93>>
BracketInputs == {<<97>>, <<102>>, <<104>>, <<106>>, <<107>>}

\* small patterns over 'a','b': "a+", "(a|b)*", "ab?", "[a-c]b", "a|ba"
PatternPool == {<<97, 43>>, <<40, 97, 124, 98, 41, 42>>,
                <<97, 98, 63>>, <<91, 97, 45, 99, 93, 98>>,
                <<97, 124, 98, 97>>}

\* the pattern ".*b" and inputs that hold the char '\0': "\0", "a\0b"
DotPattern == <<46, 42, 98>>
NulInputs == {<<0>>, <<97, 0, 98>>}

\* patterns with three alternatives at one level: "a|b|c", "(a|b|c)d"
AlternationPatterns == {<<97, 124, 98, 124, 99>>,
                        <<40, 97, 124, 98, 124, 99, 41, 100>>}

\* patterns with a repetition of a repetition, or with two leaves that match
\* one char under a repetition: "(a*)*", "(a+)+", "(a|.)*"
NestedStarPatterns == {<<40, 97, 42, 41, 42>>, <<40, 97, 43, 41, 43>>,
                       <<40, 97, 124, 46, 41, 42>>}

\* the name pattern of the XML grammar of the test,
\* "[A-Za-z_:][A-Za-z0-9_:\.-]*", and the patterns "[0-9]", "[a-z]"
xmlNamePattern == <<91, 65, 45, 90, 97, 45, 122, 95, 58, 93, 91, 65, 45, 90, 97, 45, 122, 48, 45, 57, 95, 58, 92, 46, 45, 93, 42>>
RangePatterns == {<<91, 48, 45, 57, 93>>, <<91, 97, 45, 122, 93>>, xmlNamePattern}

PatternLists ==
  UNION {[1 .. k -> PatternPool] : k \in 1 .. MaxPatterns}
    \cup {<<jsonNumberPattern, jsonRealNumberPattern, testNotContainingHPattern>>,
          <<BracketPattern>>, <<DotPattern>>}
    \cup {<<r>> : r \in AlternationPatterns \cup NestedStarPatterns \cup RangePatterns}

Inputs ==
  UNION {[1 .. k -> {97, 98}] : k \in 0 .. MaxInputLen}
    \cup TestInputs \cup BracketInputs \cup NulInputs

\* createRegexTokensFromStringList
createRegexTokensFromStringList(strs) ==
  Vector([i \in 1 .. Len(strs) |-> [str |-> strs[i], iSymbol |-> i - 1]])

InitRegex ==
  /\ IdleRanges
  /\ IdleGrammar
  /\ IdleMatching
  /\ \E strs \in PatternLists :
       regexTokens = createRegexTokensFromStringList(strs)
  /\ parseTree = <<>> /\ dStateLabels = <<>>
  /\ acceptingDStates = <<>> /\ transitions = <<>> /\ iDState = 0
  /\ dStates = <<>> /\ pcR = "create" /\ regexError = "" /\ input = <<>>
  /\ nRemoved = 0 /\ dState = 0 /\ parseResult = [matched |-> FALSE]

\* createParserFromRegex: the annotated tree of the optional t, none when empty
AnnotateOrNone(t) == IF t = NoNode THEN <<>> ELSE Annotate(t)

\* createParserFromRegex, up to the first label of createFromParseTree
CreateParser ==
  /\ pcR = "create"
  /\ parseTree' = AnnotateOrNone(parseTreeFromRegex(regexTokens, 0))
  /\ IF parseTree' = <<>>
     THEN /\ regexError' = "Unable to parse the regex"
          /\ pcR' = "error"
          /\ UNCHANGED dStateLabels
     ELSE /\ dStateLabels' = <<parseTree'[Len(parseTree')].firsts>>
          /\ pcR' = "build"
          /\ UNCHANGED regexError
  /\ UNCHANGED <<regexTokens, acceptingDStates, transitions, iDState, dStates,
                 input, nRemoved, dState, parseResult, rangeVars, matchVars, grammarVars>>

\* createFromParseTree: what a turn of the loop on iDState leaves
Processed(st) ==
  /\ dStateLabels' = st.dStateLabels
  /\ acceptingDStates' = st.acceptingDStates
  /\ transitions' = st.transitions
  /\ regexError' = st.error
  /\ pcR' = IF st.error # "" THEN "error" ELSE "build"

\* createFromParseTree: the condition of the loop on iDState holds; the loop
\* is followed as long as there are at most MaxDStates labels, of at most
\* MaxLabelLen leaves each
BuildGoesOn ==
  /\ pcR = "build"
  /\ iDState < Len(dStateLabels)
  /\ Len(dStateLabels) <= MaxDStates
  /\ \A k \in 1 .. Len(dStateLabels) : Len(dStateLabels[k]) <= MaxLabelLen

\* createFromParseTree: one turn of the loop on iDState
ProcessDState ==
  /\ BuildGoesOn
  /\ Processed(ProcessLabel(parseTree, iDState,
                            [dStateLabels |-> dStateLabels,
                             acceptingDStates |-> acceptingDStates,
                             transitions |-> transitions, error |-> ""]))
  /\ iDState' = iDState + 1
  /\ UNCHANGED <<regexTokens, parseTree, dStates, input, nRemoved, dState,
                 parseResult, rangeVars, matchVars, grammarVars>>

\* createFromParseTree: the loop is over, the dStates are filled
FinishParser ==
  /\ pcR = "build"
  /\ iDState = Len(dStateLabels)
  /\ dStates' = AllocateDStates(Len(dStateLabels), transitions, acceptingDStates)
  /\ pcR' = "ready"
  /\ UNCHANGED <<regexTokens, parseTree, dStateLabels, acceptingDStates,
                 transitions, iDState, regexError, input, nRemoved, dState,
                 parseResult, rangeVars, matchVars, grammarVars>>

\* BaseRegexParser::parse is called on a string
StartParse ==
  /\ pcR \in {"ready", "parsed"}
  /\ \E v \in Inputs : input' = v
  /\ nRemoved' = 0
  /\ dState' = 0
  /\ parseResult' = [matched |-> FALSE]
  /\ pcR' = "parsing"
  /\ UNCHANGED <<regexTokens, parseTree, dStateLabels, acceptingDStates,
                 transitions, iDState, dStates, regexError, rangeVars, matchVars, grammarVars>>

\* BaseRegexParser::parse: one turn of the while loop, with the return that
\* follows the loop when its condition fails afterwards
ParseStep ==
  /\ pcR = "parsing"
  /\ LET empty == nRemoved >= Len(input)
         c == IF empty THEN 0 ELSE input[nRemoved + 1]
         trans == SearchTransition(transitions, dStates[dState + 1].transitionsBegin,
                                   dState, c)
         found == trans < Len(transitions)
                  /\ transitions[trans + 1].iDStateFrom = dState
     IN IF found /\ empty
        THEN \* remove_prefix(1) on an empty view: undefined behaviour
             /\ pcR' = "parsed"
             /\ parseResult' \in {[matched |-> FALSE]}
                                 \cup {[matched |-> TRUE, len |-> nRemoved, iToken |-> k] :
                                         k \in 0 .. Len(regexTokens) - 1}
             /\ UNCHANGED <<dState, nRemoved>>
        ELSE IF found
        THEN /\ dState' = transitions[trans + 1].nextDState
             /\ nRemoved' = nRemoved + 1
             /\ pcR' = IF dState' < Len(dStates) THEN "parsing" ELSE "parsed"
             /\ UNCHANGED parseResult
        ELSE IF dStates[dState + 1].accepting
        THEN /\ parseResult' = [matched |-> TRUE, len |-> nRemoved,
                                iToken |-> dStates[dState + 1].iToken]
             /\ pcR' = "parsed"
             /\ UNCHANGED <<dState, nRemoved>>
        ELSE /\ dState' = Len(dStates)
             /\ pcR' = "parsed"
             /\ UNCHANGED <<parseResult, nRemoved>>
  /\ UNCHANGED <<regexTokens, parseTree, dStateLabels, acceptingDStates,
                 transitions, iDState, dStates, regexError, input, rangeVars, matchVars, grammarVars>>

NextRegex ==
  \/ CreateParser
  \/ ProcessDState
  \/ FinishParser
  \/ StartParse
  \/ ParseStep

SpecRegex == InitRegex /\ [][NextRegex]_vars

\* the loop of createFromParseTree, once entered, runs on until its condition
\* fails, and the allocation of the dStates follows it.  ProcessDState is
\* enabled exactly when BuildGoesOn holds and each of its steps changes iDState,
\* so the second conjunct is WF_vars(ProcessDState)
SpecRegexFair ==
  /\ SpecRegex
  /\ ([]<>(~BuildGoesOn) \/ []<><<ProcessDState>>_vars)
  /\ WF_vars(FinishParser)

\* the language of a parse tree: w is matched by the node n
RECURSIVE Matches(_, _)
Matches(n, w) ==
  CASE n.type = "CHAR" -> Len(w) = 1 /\ n.begChar <= w[1] /\ w[1] < n.endChar
    [] n.type = "TOKEN" -> w = <<>>
    [] n.type = "OR" -> Matches(n.subNodes[1], w) \/ Matches(n.subNodes[2], w)
    [] n.type = "AND" ->
         \E k \in 0 .. Len(w) :
           /\ Matches(n.subNodes[1], SubSeq(w, 1, k))
           /\ Matches(n.subNodes[2], SubSeq(w, k + 1, Len(w)))
    [] n.type = "OPT" -> w = <<>> \/ Matches(n.subNodes[1], w)
    [] n.type = "MANY" ->
         \/ w = <<>>
         \/ \E k \in 1 .. Len(w) :
              /\ Matches(n.subNodes[1], SubSeq(w, 1, k))
              /\ Matches(n, SubSeq(w, k + 1, Len(w)))
    [] n.type = "NONZERO" ->
         \/ Matches(n.subNodes[1], w)
         \/ \E k \in 1 .. Len(w) - 1 :
              /\ Matches(n.subNodes[1], SubSeq(w, 1, k))
              /\ Matches(n, SubSeq(w, k + 1, Len(w)))
    [] OTHER -> FALSE

\* the parse tree of the i-th pattern of the list, taken alone
PatternTree(i) == parseTreeFromRegex(<<regexTokens[i]>>, 0).subNodes[1]

\* the prefix of the input the scanner consumed
ConsumedPrefix == SubSeq(input, 1, parseResult.len)

\* token ids of the patterns that match the consumed prefix
MatchingTokens ==
  {regexTokens[i].iSymbol : i \in {j \in 1 .. Len(regexTokens) :
                                     Matches(PatternTree(j), ConsumedPrefix)}}

TestTokens ==
  createRegexTokensFromStringList(<<jsonNumberPattern, jsonRealNumberPattern,
                                    testNotContainingHPattern>>)

\* C1: when the prefix consumed by the scanner is matched by several patterns
\* the reported token id is the lowest id among the matching patterns; with
\* the patterns integer, real, [^h]+ the input "33" yields token 0,
\* "-332.235e-34" yields token 1 and "ello world!" yields token 2.
C1_EarliestPatternWins ==
  pcR = "parsed" =>
    /\ (parseResult.matched /\ MatchingTokens # {}) =>
         /\ parseResult.iToken \in MatchingTokens
         /\ \A t \in MatchingTokens : parseResult.iToken <= t
    /\ (regexTokens = TestTokens /\ input = <<51, 51>>) =>
         parseResult.matched /\ parseResult.iToken = 0
    /\ (regexTokens = TestTokens
        /\ input = <<45, 51, 51, 50, 46, 50, 51, 53, 101, 45, 51, 52>>) =>
         parseResult.matched /\ parseResult.iToken = 1
    /\ (regexTokens = TestTokens
        /\ input = <<101, 108, 108, 111, 32, 119, 111, 114, 108, 100, 33>>) =>
         parseResult.matched /\ parseResult.iToken = 2

\* C1 witness: "33" is consumed whole, all three patterns match it and the
\* first one is reported
C1_Witness ==
  /\ pcR = "parsed"
  /\ regexTokens = TestTokens
  /\ input = <<51, 51>>
  /\ parseResult.matched
  /\ parseResult.len = 2
  /\ MatchingTokens = {0, 1, 2}
  /\ parseResult.iToken = 0

BracketTokens == createRegexTokensFromStringList(<<BracketPattern>>)

\* C8 (as amended): the scanner compiled from "[a-gi-me-j]" matches each of
\* the one-character inputs "a", "f", "h", "j" and also "k".
C8_BracketMatchesAlsoK ==
  (pcR = "parsed" /\ regexTokens = BracketTokens /\ input \in BracketInputs) =>
    parseResult.matched /\ parseResult.len = 1 /\ parseResult.iToken = 0

\* C8 witness: "k" was scanned and matched
C8_Witness ==
  /\ pcR = "parsed"
  /\ regexTokens = BracketTokens
  /\ input = <<107>>
  /\ parseResult.matched
  /\ parseResult.len = 1

\* C8 as stated: "a", "f", "h", "j" are matched and "k" is not.
C8_AsStated ==
  (pcR = "parsed" /\ regexTokens = BracketTokens) =>
    /\ input \in {<<97>>, <<102>>, <<104>>, <<106>>} => parseResult.matched
    /\ input = <<107>> => ~parseResult.matched


\* the leaves i and j of the annotated tree are CHAR leaves whose ranges
\* overlap without being equal
OverlappingLeaves(i, j) ==
  /\ parseTree[i].type = "CHAR" /\ parseTree[j].type = "CHAR"
  /\ parseTree[i].begChar < parseTree[j].endChar
  /\ parseTree[j].begChar < parseTree[i].endChar
  /\ <<parseTree[i].begChar, parseTree[i].endChar>>
       # <<parseTree[j].begChar, parseTree[j].endChar>>

\* the transitions i and j share a character
TransitionsOverlap(i, j) ==
  /\ transitions[i].beg < transitions[j].end
  /\ transitions[j].beg < transitions[i].end

\* C11: the character intervals [beg,end) of the transitions leaving one
\* dState are pairwise disjoint, so that at most one transition of a dState
\* holds a given character, also when leaves of the label overlap.
C11_DisjointTransitions ==
  \A i, j \in 1 .. Len(transitions) :
    (i # j /\ transitions[i].iDStateFrom = transitions[j].iDStateFrom) =>
      ~TransitionsOverlap(i, j)

\* C11 witness: the parser is built, the label of a dState holds two leaves
\* with overlapping, different ranges and the dState has two transitions on
\* characters
C11_Witness ==
  /\ pcR = "ready"
  /\ \E d \in 1 .. Len(dStateLabels) :
       /\ \E i, j \in SeqToSet(dStateLabels[d]) : OverlappingLeaves(i, j)
       /\ \E i, j \in 1 .. Len(transitions) :
            /\ i # j
            /\ transitions[i].iDStateFrom = d - 1
            /\ transitions[j].iDStateFrom = d - 1
            /\ transitions[i].beg < transitions[i].end
            /\ transitions[j].beg < transitions[j].end

-----------------------------------------------------------------------------
(* Grammar: symbols, productions and the meta-parser                        *)
(* The grammar text is given as the list of its statements, each symbol     *)
(* occurrence with the lexical form matchAndParseSymbol finds it in.        *)
(* Indices into vectors are the 0-based indices of the code.                *)

\* GrammarSymbol::GrammarSymbol(name,type)
GrammarSymbol(name, type) ==
  [name |-> name, type |-> type, associativity |-> "NONE", precedence |-> 0,
   referredAsPrecedenceSymbol |-> FALSE, iProductions |-> <<>>,
   iProductionsReachableByFirstSymbol |-> <<>>, nullable |-> FALSE,
   firsts |-> <<>>, follows |-> <<>>]

\* GrammarProduction; the optional precedenceSymbol is <<>> or <<i>>,
\* the action is the empty sequence when absent
GrammarProduction(iLhs, iRhsList, precedenceSymbol, action) ==
  [iLhs |-> iLhs, iRhsList |-> iRhsList, precedenceSymbol |-> precedenceSymbol,
   action |-> action]

\* GrammarProduction::precedence
precedence(production, syms) ==
  IF production.precedenceSymbol # <<>>
  THEN syms[production.precedenceSymbol[1] + 1].precedence
  ELSE 0

\* GrammarProduction::isNullableAfter
RECURSIVE isNullableAfter(_, _, _)
isNullableAfter(production, syms, position) ==
  IF position >= Len(production.iRhsList) THEN TRUE
  ELSE IF ~syms[production.iRhsList[position + 1] + 1].nullable THEN FALSE
  ELSE isNullableAfter(production, syms, position + 1)

\* the indices addGenericSymbols stores
iStartSymbol == 0
iEndSymbol == 1
iErrorSymbol == 2
iWhitespaceSymbol == 3

\* the names ".start", ".end", ".error", ".whitespace"
startName == <<46, 115, 116, 97, 114, 116>>
endName == <<46, 101, 110, 100>>
errorName == <<46, 101, 114, 114, 111, 114>>
whitespaceName == <<46, 119, 104, 105, 116, 101, 115, 112, 97, 99, 101>>

\* Grammar::addGenericSymbols on the empty symbol list
addGenericSymbols ==
  <<GrammarSymbol(startName, "NON_TERMINAL_SYMBOL"),
    GrammarSymbol(endName, "END_SYMBOL"),
    GrammarSymbol(errorName, "NULL_SYMBOL"),
    GrammarSymbol(whitespaceName, "NULL_SYMBOL")>>

\* the find_if of insertOrFindSymbol: 1-based position, 0 when absent
FindSymbol(syms, name, type) ==
  IF \E i \in 1 .. Len(syms) : syms[i].name = name /\ syms[i].type = type
  THEN CHOOSE i \in 1 .. Len(syms) :
         /\ syms[i].name = name /\ syms[i].type = type
         /\ \A j \in 1 .. i - 1 : ~(syms[j].name = name /\ syms[j].type = type)
  ELSE 0

InsertOrFindAt(syms, name, type, at) ==
  IF at = 0
  THEN [symbols |-> Append(syms, GrammarSymbol(name, type)), i |-> Len(syms)]
  ELSE [symbols |-> syms, i |-> at - 1]

\* Grammar::insertOrFindSymbol: the symbol list afterwards and the index
insertOrFindSymbol(syms, name, type) ==
  InsertOrFindAt(syms, name, type, FindSymbol(syms, name, type))

\* matchAndParseSymbol: the name and the type of the symbol of an occurrence
TokenName(tok) == IF tok.kind = "error" THEN errorName ELSE tok.text

TokenType(tok) ==
  IF tok.kind = "error" THEN "NULL_SYMBOL"
  ELSE IF tok.kind \in {"literal", "regex"} THEN "TERMINAL_SYMBOL"
  ELSE "NON_TERMINAL_SYMBOL"

\* Grammar::matchAndParseSymbol on one symbol occurrence
matchAndParseSymbol(syms, tok) ==
  IF tok.kind = "error" THEN [symbols |-> syms, i |-> iErrorSymbol]
  ELSE insertOrFindSymbol(syms, TokenName(tok), TokenType(tok))

\* matchAndParseSymbol on every occurrence of toks in turn: the positions of
\* the occurrences that insert a symbol
InsertingTokens(syms, toks) ==
  SelectSeq(Vector([k \in 1 .. Len(toks) |-> k]),
            LAMBDA k :
              /\ toks[k].kind # "error"
              /\ FindSymbol(syms, TokenName(toks[k]), TokenType(toks[k])) = 0
              /\ \A j \in 1 .. k - 1 :
                   ~(/\ TokenName(toks[j]) = TokenName(toks[k])
                     /\ TokenType(toks[j]) = TokenType(toks[k])))

\* matchAndParseSymbol on every occurrence of toks in turn: the symbol list
\* afterwards
SymbolsAfter(syms, toks) ==
  syms \o ElementsAt(Vector([k \in 1 .. Len(toks) |->
                        GrammarSymbol(TokenName(toks[k]), TokenType(toks[k]))]),
                     InsertingTokens(syms, toks))

\* matchAndParseSymbol on every occurrence of toks in turn: the indices
\* returned, syms2 being the symbol list afterwards
SymbolIndices(syms2, toks) ==
  Vector([k \in 1 .. Len(toks) |-> matchAndParseSymbol(syms2, toks[k]).i])

\* matchAndParseAssociativityStatement: the symbols of the statement get the
\* associativity and the precedence
AssocSymbol(syms2, toks, assoc, prec) ==
  Vector([i \in 1 .. Len(syms2) |->
     IF \E k \in 1 .. Len(toks) : matchAndParseSymbol(syms2, toks[k]).i = i - 1
     THEN [syms2[i] EXCEPT !.associativity = assoc, !.precedence = prec]
     ELSE syms2[i]])

AssocSymbols(syms, toks, assoc, prec) ==
  AssocSymbol(SymbolsAfter(syms, toks), toks, assoc, prec)

\* Grammar::matchAndParseAssociativityStatement on a matching statement
matchAndParseAssociativityStatement(g, st) ==
  [g EXCEPT !.currentPrecedence = g.currentPrecedence + 1,
            !.symbols = AssocSymbols(g.symbols, st.syms, st.associativity,
                                     g.currentPrecedence + 1)]

ParseRhsIn(syms2, toks) ==
  [symbols |-> syms2, iRhss |-> SymbolIndices(syms2, toks)]

\* matchAndParseProductionStatement: the loop that fills iRhss
ParseRhs(syms, toks) == ParseRhsIn(SymbolsAfter(syms, toks), toks)

ParsePrecedenceSet(m) ==
  [symbols |-> [m.symbols EXCEPT ![m.i + 1].referredAsPrecedenceSymbol = TRUE],
   precedenceSymbol |-> <<m.i>>]

\* matchAndParseProductionStatement: the optional %precedence clause
ParsePrecedence(syms, prec) ==
  IF prec = <<>> THEN [symbols |-> syms, precedenceSymbol |-> <<>>]
  ELSE ParsePrecedenceSet(matchAndParseSymbol(syms, prec[1]))

AddProduction(g, iLhs, iRhss, p, action) ==
  [g EXCEPT !.symbols = [p.symbols EXCEPT ![iLhs + 1].iProductions =
                                            Append(@, Len(g.productions))],
            !.productions = Append(@, GrammarProduction(iLhs, iRhss,
                                                        p.precedenceSymbol, action))]

AddAlternativeRhs(g, iLhs, r, alt) ==
  AddProduction(g, iLhs, r.iRhss, ParsePrecedence(r.symbols, alt.precedence),
                alt.action)

\* matchAndParseProductionStatement: one turn of the do-while on '|'
AddAlternative(g, iLhs, alt) ==
  AddAlternativeRhs(g, iLhs, ParseRhs(g.symbols, alt.rhs), alt)

\* matchAndParseProductionStatement: the first n turns of the do-while on '|'
RECURSIVE AddAlternatives(_, _, _, _)
AddAlternatives(g, iLhs, alts, n) ==
  IF n = 0 THEN g
  ELSE AddAlternative(AddAlternatives(g, iLhs, alts, n - 1), iLhs, alts[n])

\* matchAndParseProductionStatement: the starting rule added with the first lhs
AddStartProduction(g, iLhs) ==
  IF g.productions = <<>>
  THEN [g EXCEPT !.productions =
                   <<GrammarProduction(iStartSymbol, <<iLhs>>, <<>>, <<>>)>>,
                 !.symbols[iStartSymbol + 1].iProductions = Append(@, 0)]
  ELSE g

ProductionStatementLhs(g, m, st) ==
  AddAlternatives(AddStartProduction([g EXCEPT !.symbols = m.symbols], m.i),
                  m.i, st.alts, Len(st.alts))

\* Grammar::matchAndParseProductionStatement on a matching statement
matchAndParseProductionStatement(g, st) ==
  ProductionStatementLhs(g, insertOrFindSymbol(g.symbols, st.lhs,
                                               "NON_TERMINAL_SYMBOL"), st)

\* Grammar::matchAndParseWhitespaceStatement on a matching statement
matchAndParseWhitespaceStatement(g, st) ==
  [g EXCEPT !.whitespaceTokens =
              @ \o Vector([k \in 1 .. Len(st.regexes) |->
                      [str |-> st.regexes[k], iSymbol |-> iWhitespaceSymbol]])]

ParseStatement(g, st) ==
  IF st.stmt = "associativity" THEN matchAndParseAssociativityStatement(g, st)
  ELSE IF st.stmt = "whitespace" THEN matchAndParseWhitespaceStatement(g, st)
  ELSE matchAndParseProductionStatement(g, st)

\* Grammar::parseTheGrammar: one turn of the loop over the statements of the
\* body
parseTheGrammar(g, stmts, iStatement) == ParseStatement(g, stmts[iStatement + 1])

\* checkTheGrammar: symbolsCount[i] is not zero
SymbolUsed(prods, i) ==
  \E k \in 1 .. Len(prods) :
    \/ \E r \in 1 .. Len(prods[k].iRhsList) : prods[k].iRhsList[r] = i
    \/ prods[k].precedenceSymbol = <<i>>

\* Grammar::checkTheGrammar: the message emitted, "" when none
checkTheGrammar(syms, prods) ==
  IF \E k \in 1 .. Len(syms) :
       /\ syms[k].type = "NON_TERMINAL_SYMBOL"
       /\ syms[k].iProductions = <<>>
       /\ ~syms[k].referredAsPrecedenceSymbol
  THEN "Undefined symbol"
  ELSE IF \E i \in 0 .. Len(syms) - 1 :
            /\ i \notin {iStartSymbol, iEndSymbol, iErrorSymbol, iWhitespaceSymbol}
            /\ ~SymbolUsed(prods, i)
  THEN "Unreferenced symbol"
  ELSE ""

-----------------------------------------------------------------------------
(* Grammar: the optimizer                                                   *)

\* a variant of replaceSymbolReference that leaves the ids above the removed
\* symbol as they are
replaceSymbolReferenceNoShift(iTargetSymbol, iReplacedSymbol, iReplacementSymbol) ==
  IF iTargetSymbol = iReplacedSymbol THEN iReplacementSymbol ELSE iTargetSymbol

\* Grammar::replaceSymbolReference: the new value of iTargetSymbol
replaceSymbolReference(iTargetSymbol, iReplacedSymbol, iReplacementSymbol) ==
  LET t == IF iTargetSymbol = iReplacedSymbol THEN iReplacementSymbol
           ELSE iTargetSymbol
  IN IF t > iReplacedSymbol THEN t - 1 ELSE t

ReplaceInProduction(p, iReplacedSymbol, iReplacementSymbol) ==
  [p EXCEPT
     !.iLhs = replaceSymbolReference(@, iReplacedSymbol, iReplacementSymbol),
     !.iRhsList = Vector([k \in 1 .. Len(p.iRhsList) |->
                     replaceSymbolReference(p.iRhsList[k], iReplacedSymbol,
                                            iReplacementSymbol)]),
     !.precedenceSymbol = Vector([k \in 1 .. Len(p.precedenceSymbol) |->
                             replaceSymbolReference(p.precedenceSymbol[k],
                                                    iReplacedSymbol,
                                                    iReplacementSymbol)])]

\* variant of replaceAndRemoveSymbol in which the replacement inherits nothing
InheritNothing(syms, iReplacedSymbol, iReplacementSymbol) == syms

\* replaceAndRemoveSymbol: the precedence and the associativity move to the
\* replacement
InheritDeclarations(syms, iReplacedSymbol, iReplacementSymbol) ==
  [syms EXCEPT
     ![iReplacementSymbol + 1].precedence =
        IF syms[iReplacedSymbol + 1].precedence # 0
        THEN syms[iReplacedSymbol + 1].precedence ELSE @,
     ![iReplacementSymbol + 1].associativity =
        IF syms[iReplacedSymbol + 1].associativity # "NONE"
        THEN syms[iReplacedSymbol + 1].associativity ELSE @]

\* Grammar::replaceAndRemoveSymbol
replaceAndRemoveSymbol(g, iReplacedSymbol, iReplacementSymbol) ==
  IF /\ g.symbols[iReplacedSymbol + 1].precedence # 0
     /\ g.symbols[iReplacementSymbol + 1].precedence # 0
  THEN [g EXCEPT !.error = "both have a declared precedence"]
  ELSE IF /\ g.symbols[iReplacedSymbol + 1].associativity # "NONE"
          /\ g.symbols[iReplacementSymbol + 1].associativity # "NONE"
  THEN [g EXCEPT !.error = "both have a declared associativity"]
  ELSE [g EXCEPT
          !.productions = Vector([k \in 1 .. Len(g.productions) |->
                             ReplaceInProduction(g.productions[k], iReplacedSymbol,
                                                 iReplacementSymbol)]),
          !.symbols = EraseAt(InheritDeclarations(g.symbols, iReplacedSymbol,
                                                  iReplacementSymbol),
                              iReplacedSymbol + 1)]

\* Grammar::removeProduction
removeProduction(g, iProduction) ==
  [g EXCEPT
     !.productions = EraseAt(@, iProduction + 1),
     !.symbols = Vector([k \in 1 .. Len(g.symbols) |->
                    [g.symbols[k] EXCEPT
                       !.iProductions =
                          Vector([j \in 1 .. Len(g.symbols[k].iProductions) |->
                             IF g.symbols[k].iProductions[j] > iProduction
                             THEN g.symbols[k].iProductions[j] - 1
                             ELSE g.symbols[k].iProductions[j]])]])]

\* removeOneRedundantProductionIfFound: symbol iSymbol is an alias of a terminal
IsRedundant(syms, prods, iSymbol) ==
  /\ iSymbol # iErrorSymbol
  /\ Len(syms[iSymbol + 1].iProductions) = 1
  /\ Len(prods[syms[iSymbol + 1].iProductions[1] + 1].iRhsList) = 1
  /\ prods[syms[iSymbol + 1].iProductions[1] + 1].action = <<>>
  /\ syms[prods[syms[iSymbol + 1].iProductions[1] + 1].iRhsList[1] + 1].type
       = "TERMINAL_SYMBOL"

\* removeOneRedundantProductionIfFound: the symbol the loop stops at,
\* symbols.size() when none
RECURSIVE FirstRedundant(_, _, _)
FirstRedundant(syms, prods, iSymbol) ==
  IF iSymbol >= Len(syms) THEN iSymbol
  ELSE IF IsRedundant(syms, prods, iSymbol) THEN iSymbol
  ELSE FirstRedundant(syms, prods, iSymbol + 1)

RemoveRedundant(g, iSymbol, iProduction, iActualSymbol) ==
  replaceAndRemoveSymbol(removeProduction(g, iProduction), iSymbol, iActualSymbol)

\* Grammar::removeOneRedundantProductionIfFound on a symbol found redundant
removeOneRedundantProductionIfFound(g, iSymbol) ==
  RemoveRedundant(g, iSymbol, g.symbols[iSymbol + 1].iProductions[1],
                  g.productions[g.symbols[iSymbol + 1].iProductions[1] + 1].iRhsList[1])

-----------------------------------------------------------------------------
(* Grammar: nullable, firsts, follows, precedence of the productions        *)

\* a variant of the loop on the rhs that stops after the first symbol of the
\* rhs, whether it is nullable or not
FirstsOfProductionFirstOnly(syms, iS, p, iRhs) ==
  IF iRhs >= Len(p.iRhsList)
  THEN [syms EXCEPT ![iS + 1].nullable = TRUE]
  ELSE [syms EXCEPT ![iS + 1].firsts =
                      AddAllUnique(@, syms[p.iRhsList[iRhs + 1] + 1].firsts)]

\* calculateFirsts: the loop on the rhs of production p of symbol iS
RECURSIVE FirstsOfProduction(_, _, _, _)
FirstsOfProduction(syms, iS, p, iRhs) ==
  IF iRhs >= Len(p.iRhsList)
  THEN [syms EXCEPT ![iS + 1].nullable = TRUE]
  ELSE LET iT == p.iRhsList[iRhs + 1]
           added == [syms EXCEPT ![iS + 1].firsts =
                                   AddAllUnique(@, syms[iT + 1].firsts)]
       IN IF ~syms[iT + 1].nullable THEN added
          ELSE FirstsOfProduction(added, iS, p, iRhs + 1)

RECURSIVE FirstsOfProductions(_, _, _, _)
FirstsOfProductions(syms, prods, iS, k) ==
  IF k > Len(syms[iS + 1].iProductions) THEN syms
  ELSE FirstsOfProductions(
         FirstsOfProduction(syms, iS, prods[syms[iS + 1].iProductions[k] + 1], 0),
         prods, iS, k + 1)

\* calculateFirsts: one pass over the symbols, from iS on
RECURSIVE FirstsPass(_, _, _)
FirstsPass(syms, prods, iS) ==
  IF iS >= Len(syms) THEN syms
  ELSE IF syms[iS + 1].type = "NON_TERMINAL_SYMBOL"
  THEN FirstsPass(FirstsOfProductions(syms, prods, iS, 1), prods, iS + 1)
  ELSE FirstsPass([syms EXCEPT ![iS + 1].firsts = maybeAddToUniqueVector(@, iS)],
                  prods, iS + 1)

RECURSIVE calculateFirsts(_, _)
FirstsAgain(syms, prods, after) ==
  IF after = syms THEN syms ELSE calculateFirsts(after, prods)

\* Grammar::calculateFirsts: passes are repeated while one adds something
\* (nAdded is not zero exactly when the pass changed a symbol)
calculateFirsts(syms, prods) == FirstsAgain(syms, prods, FirstsPass(syms, prods, 0))

\* calculateFollows: the backward loop on the rhs, iRhs is the position + 1
RECURSIVE FollowsBackward(_, _, _, _)
FollowsBackward(syms, iS, p, iRhs) ==
  IF iRhs = 0 THEN [symbols |-> syms, iLastBeforeOut |-> 0]
  ELSE LET cur == p.iRhsList[iRhs]
           added == [syms EXCEPT ![cur + 1].follows =
                                   AddAllUnique(@, syms[iS + 1].follows)]
       IN IF ~syms[cur + 1].nullable
          THEN [symbols |-> added, iLastBeforeOut |-> iRhs - 1]
          ELSE IF iRhs = 1 THEN [symbols |-> added, iLastBeforeOut |-> 0]
          ELSE FollowsBackward(added, iS, p, iRhs - 1)

\* calculateFollows: the forward loop, adding firsts of rhs[iLastBeforeOut]
RECURSIVE FollowsForward(_, _, _, _)
FollowsForward(syms, p, iLastBeforeOut, iRhs) ==
  IF iRhs + 1 >= Len(p.iRhsList) THEN syms
  ELSE FollowsForward(
         [syms EXCEPT ![p.iRhsList[iRhs + 1] + 1].follows =
                         AddAllUnique(@, syms[p.iRhsList[iLastBeforeOut + 1] + 1].firsts)],
         p, iLastBeforeOut, iRhs + 1)

FollowsOfProductionForward(b, p) ==
  FollowsForward(b.symbols, p, b.iLastBeforeOut, 0)

FollowsOfProduction(syms, iS, p) ==
  FollowsOfProductionForward(FollowsBackward(syms, iS, p, Len(p.iRhsList)), p)

RECURSIVE FollowsOfProductions(_, _, _, _)
FollowsOfProductions(syms, prods, iS, k) ==
  IF k > Len(syms[iS + 1].iProductions) THEN syms
  ELSE FollowsOfProductions(
         FollowsOfProduction(syms, iS, prods[syms[iS + 1].iProductions[k] + 1]),
         prods, iS, k + 1)

RECURSIVE FollowsPass(_, _, _)
FollowsPass(syms, prods, iS) ==
  IF iS >= Len(syms) THEN syms
  ELSE FollowsPass(FollowsOfProductions(syms, prods, iS, 1), prods, iS + 1)

RECURSIVE FollowsLoop(_, _)
FollowsAgain(syms, prods, after) ==
  IF after = syms THEN syms ELSE FollowsLoop(after, prods)

FollowsLoop(syms, prods) == FollowsAgain(syms, prods, FollowsPass(syms, prods, 0))

\* Grammar::calculateFollows
calculateFollows(syms, prods) ==
  FollowsLoop([syms EXCEPT ![iStartSymbol + 1].follows = Append(@, iEndSymbol)],
              prods)

\* setPrecedence: the rightmost terminal of the rhs, as an optional
RECURSIVE RightmostTerminal(_, _, _)
RightmostTerminal(syms, iRhsList, iiRhs) ==
  IF iiRhs = 0 THEN <<>>
  ELSE IF syms[iRhsList[iiRhs] + 1].type = "TERMINAL_SYMBOL"
  THEN <<iRhsList[iiRhs]>>
  ELSE RightmostTerminal(syms, iRhsList, iiRhs - 1)

\* Grammar::setPrecedence
setPrecedence(syms, prods) ==
  Vector([k \in 1 .. Len(prods) |->
     IF prods[k].precedenceSymbol # <<>> THEN prods[k]
     ELSE [prods[k] EXCEPT !.precedenceSymbol =
             RightmostTerminal(syms, prods[k].iRhsList, Len(prods[k].iRhsList))]])

\* variant of the lambda of preComputeGotoStates that does not descend into
\* the first symbol of the productions it inserts
RECURSIVE lookForProductionsOfSymbolOnly(_, _, _, _, _)
lookForProductionsOfSymbolOnly(syms, prods, reachable, curS, k) ==
  IF k > Len(syms[curS + 1].iProductions) THEN reachable
  ELSE lookForProductionsOfSymbolOnly(
         syms, prods,
         IF prods[syms[curS + 1].iProductions[k] + 1].iRhsList = <<>>
         THEN reachable
         ELSE maybeAddToUniqueVector(reachable, syms[curS + 1].iProductions[k]),
         curS, k + 1)

\* preComputeGotoStates: the recursive lambda, from production k of curS on
RECURSIVE lookForRachableProductionsOfSymbol(_, _, _, _, _)
lookForRachableProductionsOfSymbol(syms, prods, reachable, curS, k) ==
  IF k > Len(syms[curS + 1].iProductions) THEN reachable
  ELSE LET iP == syms[curS + 1].iProductions[k]
       IN IF prods[iP + 1].iRhsList = <<>> \/ Find(reachable, iP) # 0
          THEN lookForRachableProductionsOfSymbol(syms, prods, reachable, curS, k + 1)
          ELSE lookForRachableProductionsOfSymbol(
                 syms, prods,
                 lookForRachableProductionsOfSymbol(syms, prods, Append(reachable, iP),
                                                    prods[iP + 1].iRhsList[1], 1),
                 curS, k + 1)

\* Grammar::preComputeGotoStates
preComputeGotoStates(syms, prods) ==
  Vector([k \in 1 .. Len(syms) |->
     [syms[k] EXCEPT !.iProductionsReachableByFirstSymbol =
        @ \o lookForRachableProductionsOfSymbol(syms, prods, <<>>, k - 1, 1)]])

-----------------------------------------------------------------------------
(* Grammar: items and states                                                *)

GrammarItem(iProduction, position) ==
  [iProduction |-> iProduction, position |-> position]

\* GrammarState::findItem: the index of the first item of the state equal to
\* `item`, -1 for the empty optional
findItem(iItems, its, item) ==
  IF \E k \in 1 .. Len(iItems) : its[iItems[k] + 1] = item
  THEN iItems[CHOOSE k \in 1 .. Len(iItems) :
                /\ its[iItems[k] + 1] = item
                /\ \A j \in 1 .. k - 1 : its[iItems[j] + 1] # item]
  ELSE -1

\* the lambda `add` of createGotoState, also the two maybeAddToUniqueVector of
\* addClosure, on every item of added in turn, its2 being the items of the
\* grammar afterwards: acc holds the items of the grammar and the iItems of
\* the state
AddItemsTo(acc, added, its2) ==
  [items |-> its2,
   iItems |-> AddAllUnique(acc.iItems,
                           Vector([k \in 1 .. Len(added) |-> Find(its2, added[k]) - 1]))]

AddItems(acc, added) == AddItemsTo(acc, added, AddAllUnique(acc.items, added))

\* createGotoState: the items added by the loop on
\* iProductionsReachableByFirstSymbol
GotoReachable(reachable, prods, iSymbol) ==
  ElementsAt(Vector([k \in 1 .. Len(reachable) |-> GrammarItem(reachable[k], 1)]),
             SelectSeq(Vector([k \in 1 .. Len(reachable) |-> k]),
                       LAMBDA k : prods[reachable[k] + 1].iRhsList[1] = iSymbol))

GotoOnNextSymbol(item, iNextSymbol, iSymbol, prods, syms) ==
  (IF iSymbol = iNextSymbol
   THEN <<GrammarItem(item.iProduction, item.position + 1)>>
   ELSE <<>>)
    \o GotoReachable(syms[iNextSymbol + 1].iProductionsReachableByFirstSymbol,
                     prods, iSymbol)

\* createGotoState: the items added by the body of the loop on the items of
\* the state
GotoOfItem(item, iSymbol, prods, syms) ==
  IF item.position < Len(prods[item.iProduction + 1].iRhsList)
  THEN GotoOnNextSymbol(item,
                        prods[item.iProduction + 1].iRhsList[item.position + 1],
                        iSymbol, prods, syms)
  ELSE <<>>

\* createGotoState: the items added by the loop on the items of the state,
\* from the k-th on; the items of the state are in its already
RECURSIVE GotoLoop(_, _, _, _, _, _)
GotoLoop(its, iItems, iSymbol, prods, syms, k) ==
  IF k > Len(iItems) THEN <<>>
  ELSE GotoOfItem(its[iItems[k] + 1], iSymbol, prods, syms)
       \o GotoLoop(its, iItems, iSymbol, prods, syms, k + 1)

\* GrammarState::createGotoState: the items afterwards, the iItems of gotoState
createGotoState(iItems, iSymbol, its, prods, syms) ==
  AddItems([items |-> its, iItems |-> <<>>],
          GotoLoop(its, iItems, iSymbol, prods, syms, 1))

\* addClosure: the loop on the productions of the symbol after the dot
ClosureProductions(acc, iProds) ==
  AddItems(acc, Vector([k \in 1 .. Len(iProds) |-> GrammarItem(iProds[k], 0)]))

ClosureOfItem(acc, item, prods, syms) ==
  IF item.position < Len(prods[item.iProduction + 1].iRhsList)
  THEN ClosureProductions(
         acc,
         syms[prods[item.iProduction + 1].iRhsList[item.position + 1] + 1].iProductions)
  ELSE acc

RECURSIVE ClosureLoop(_, _, _, _)
ClosureLoop(acc, prods, syms, iIItem) ==
  IF iIItem > Len(acc.iItems) THEN acc
  ELSE ClosureLoop(ClosureOfItem(acc, acc.items[acc.iItems[iIItem] + 1], prods, syms),
                   prods, syms, iIItem + 1)

\* GrammarState::addClosure: the items afterwards, the iItems of the state
addClosure(iItems, its, prods, syms) ==
  ClosureLoop([items |-> its, iItems |-> iItems], prods, syms, 1)

\* generateStates: a non-empty gotoState is looked up in stateItems, inserted
\* when new, and the transition is emplaced in the state iSt
EmplaceGoto(st, iSt, iSymbol, gotoState) ==
  IF gotoState.iItems = <<>> THEN [st EXCEPT !.items = gotoState.items]
  ELSE [items |-> gotoState.items,
        stateItems |-> maybeAddToUniqueVector(st.stateItems, gotoState.iItems),
        stateTransitions |->
          [(IF Find(st.stateItems, gotoState.iItems) = 0
            THEN Append(st.stateTransitions, <<>>)
            ELSE st.stateTransitions)
           EXCEPT ![iSt + 1] =
             Append(@, [iSymbol |-> iSymbol,
                        iStateOrProduction |->
                          IndexAfterAdd(st.stateItems, gotoState.iItems) - 1,
                        type |-> "SHIFT"])]]

\* generateStates: the body of the loop on the symbols, for the state iSt
GotoStateOn(st, iSt, iSymbol, prods, syms) ==
  IF iSymbol = iEndSymbol THEN st
  ELSE EmplaceGoto(st, iSt, iSymbol,
                   createGotoState(st.stateItems[iSt + 1], iSymbol, st.items,
                                   prods, syms))

-----------------------------------------------------------------------------
(* Grammar: lookaheads                                                      *)
(* A BitSet is the set of the indices of its bits that are 1.               *)

\* BitSet::insert: the value returned, which counts the bits that differ
\* between the two sets before the or
BitSetInsertCount(data, oth) == Cardinality((data \ oth) \cup (oth \ data))

\* variant of insert that overwrites the bits with those of oth
BitSetInsertAssign(data, oth) == oth

\* BitSet::insert: the bits afterwards
BitSetInsert(data, oth) == data \cup oth

\* generateSpontaneousLookahead: the symbols of toIns for an item whose dot is
\* before position iOtherPosition - 1
RECURSIVE ToIns(_, _, _)
ToIns(syms, iRhsList, iOtherPosition) ==
  IF iOtherPosition >= Len(iRhsList) THEN {}
  ELSE SeqToSet(syms[iRhsList[iOtherPosition + 1] + 1].firsts)
         \cup (IF syms[iRhsList[iOtherPosition + 1] + 1].nullable
               THEN ToIns(syms, iRhsList, iOtherPosition + 1)
               ELSE {})

\* generateSpontaneousLookahead: item iItem, met in a state that holds
\* iOtherItem, makes the loop set toIns in lookaheads[iOtherItem]
SetsLookaheadOf(its, prods, syms, iItem, iOtherItem) ==
  /\ its[iItem + 1].position < Len(prods[its[iItem + 1].iProduction + 1].iRhsList)
  /\ its[iOtherItem + 1].position = 0
  /\ Find(syms[prods[its[iItem + 1].iProduction + 1]
                 .iRhsList[its[iItem + 1].position + 1] + 1].iProductions,
          its[iOtherItem + 1].iProduction) # 0

\* generateSpontaneousLookahead: the bits of lookaheads[iOtherItem] afterwards
SpontaneousLookahead(its, stItems, prods, syms, iOtherItem) ==
  (IF iOtherItem = 0 THEN {iEndSymbol} ELSE {})
    \cup UNION {ToIns(syms, prods[its[iItem + 1].iProduction + 1].iRhsList,
                      its[iItem + 1].position + 1) :
                  iItem \in {i \in 0 .. Len(its) - 1 :
                               \E s \in 1 .. Len(stItems) :
                                 /\ Find(stItems[s], i) # 0
                                 /\ Find(stItems[s], iOtherItem) # 0
                                 /\ SetsLookaheadOf(its, prods, syms, i, iOtherItem)}}

\* Grammar::generateSpontaneousLookahead
generateSpontaneousLookahead(its, stItems, prods, syms) ==
  Vector([k \in 1 .. Len(its) |->
     [symbolIs |-> SpontaneousLookahead(its, stItems, prods, syms, k - 1),
      iPropagateToItems |-> <<>>]])

\* generateGotoItems, first loop: the read production.iRhsList[item.position]
\* is past the end of the vector for a reducible item with a non-empty rhs
ReadsPastRhs(its, prods, iItem) ==
  /\ prods[its[iItem + 1].iProduction + 1].iRhsList # <<>>
  /\ its[iItem + 1].position >= Len(prods[its[iItem + 1].iProduction + 1].iRhsList)

\* generateGotoItems, first loop: the item the edge of iItem goes to for the
\* transition t, as the sequence of what is added (-1: findItem found nothing)
GotoItemOf(its, stItems, prods, t, iItem) ==
  IF /\ its[iItem + 1].position < Len(prods[its[iItem + 1].iProduction + 1].iRhsList)
     /\ prods[its[iItem + 1].iProduction + 1].iRhsList[its[iItem + 1].position + 1]
          = t.iSymbol
  THEN <<findItem(stItems[t.iStateOrProduction + 1], its,
                  GrammarItem(its[iItem + 1].iProduction,
                              its[iItem + 1].position + 1))>>
  ELSE <<>>

RECURSIVE GotoItemsOf(_, _, _, _, _, _)
GotoItemsOf(its, stItems, prods, trs, iItem, k) ==
  IF k > Len(trs) THEN <<>>
  ELSE GotoItemOf(its, stItems, prods, trs[k], iItem)
         \o GotoItemsOf(its, stItems, prods, trs, iItem, k + 1)

\* generateGotoItems, second loop: the items (iOtherProduction,0) of the state
RECURSIVE ClosureItemsOf(_, _, _, _)
ClosureItemsOf(its, iItems, iProds, k) ==
  IF k > Len(iProds) THEN <<>>
  ELSE (IF findItem(iItems, its, GrammarItem(iProds[k], 0)) >= 0
        THEN <<findItem(iItems, its, GrammarItem(iProds[k], 0))>>
        ELSE <<>>)
         \o ClosureItemsOf(its, iItems, iProds, k + 1)

PropagatesInState(its, iItems, prods, syms, iItem) ==
  IF /\ its[iItem + 1].position < Len(prods[its[iItem + 1].iProduction + 1].iRhsList)
     /\ isNullableAfter(prods[its[iItem + 1].iProduction + 1], syms,
                        its[iItem + 1].position + 1)
  THEN ClosureItemsOf(its, iItems,
                      syms[prods[its[iItem + 1].iProduction + 1]
                             .iRhsList[its[iItem + 1].position + 1] + 1].iProductions,
                      1)
  ELSE <<>>

\* generateGotoItems: what the turn of the loop for the state iSt adds to
\* lookaheads[iItem].iPropagateToItems, in the order of the additions
GotoItemsInState(its, stItems, stTrans, prods, syms, iSt, iItem) ==
  IF Find(stItems[iSt + 1], iItem) = 0 THEN <<>>
  ELSE GotoItemsOf(its, stItems, prods, stTrans[iSt + 1], iItem, 1)
         \o PropagatesInState(its, stItems[iSt + 1], prods, syms, iItem)

\* generateGotoItems: the turn for the state iSt has undefined behaviour
GotoItemsUndefined(its, stItems, stTrans, prods, iSt) ==
  /\ stTrans[iSt + 1] # <<>>
  /\ \E k \in 1 .. Len(stItems[iSt + 1]) :
       \/ ReadsPastRhs(its, prods, stItems[iSt + 1][k])
       \/ Find(GotoItemsOf(its, stItems, prods, stTrans[iSt + 1],
                           stItems[iSt + 1][k], 1), -1) # 0

\* Grammar::generateGotoItems: one turn of the loop on the states
generateGotoItems(lks, its, stItems, stTrans, prods, syms, iSt) ==
  Vector([k \in 1 .. Len(lks) |->
     [lks[k] EXCEPT !.iPropagateToItems =
        AddAllUnique(@, GotoItemsInState(its, stItems, stTrans, prods, syms,
                                         iSt, k - 1))]])

\* propagateLookaheads: the loop on the iPropagateToItems of iLookahead;
\* acc holds lookaheads and nextLookaheads
RECURSIVE PropagateTo(_, _, _, _)
PropagateTo(acc, symbolIs, iPropagateToItems, k) ==
  IF k > Len(iPropagateToItems) THEN acc
  ELSE PropagateTo(
         [lookaheads |->
            [acc.lookaheads EXCEPT ![iPropagateToItems[k] + 1].symbolIs =
                                     BitSetInsert(@, symbolIs)],
          nextLookaheads |->
            IF BitSetInsertCount(acc.lookaheads[iPropagateToItems[k] + 1].symbolIs,
                                 symbolIs) # 0
            THEN Append(acc.nextLookaheads, iPropagateToItems[k])
            ELSE acc.nextLookaheads],
         symbolIs, iPropagateToItems, k + 1)

\* propagateLookaheads: the body of the loop on iLookaheadsToInsert
propagateLookaheads(lks, nxt, iLookahead) ==
  PropagateTo([lookaheads |-> lks, nextLookaheads |-> nxt],
              lks[iLookahead + 1].symbolIs,
              lks[iLookahead + 1].iPropagateToItems, 1)

-----------------------------------------------------------------------------
(* Grammar: transitions and conflicts                                       *)

\* GrammarTransition::getReduce
getReduce(iSymbol, iProduction) ==
  [iSymbol |-> iSymbol, iStateOrProduction |-> iProduction, type |-> "REDUCE"]

\* Grammar::insertReduceTransition
insertReduceTransition(trs, iSymbol, iProduction) ==
  Append(trs, getReduce(iSymbol, iProduction))

\* variant of dealWithShiftReduceConflict that overrides the shift whenever the
\* two precedences are equal, whatever the associativity
ShiftReduceOverridesOnEqual(transition, symbol, iProduction, productionPrecedence) ==
  IF productionPrecedence = 0 \/ symbol.precedence = 0
  THEN [transition |-> transition, error |-> "shift/reduce conflict"]
  ELSE IF productionPrecedence >= symbol.precedence
  THEN [transition |-> [transition EXCEPT !.type = "REDUCE",
                                          !.iStateOrProduction = iProduction],
        error |-> ""]
  ELSE [transition |-> transition, error |-> ""]

\* Grammar::dealWithShiftReduceConflict, given the two precedences: the
\* transition afterwards and the message emitted
ShiftReduce(transition, symbol, iProduction, productionPrecedence) ==
  IF \/ productionPrecedence = 0
     \/ symbol.precedence = 0
     \/ (symbol.precedence = productionPrecedence /\ symbol.associativity = "NONE")
  THEN [transition |-> transition, error |-> "shift/reduce conflict"]
  ELSE IF \/ productionPrecedence > symbol.precedence
          \/ (symbol.precedence = productionPrecedence
              /\ symbol.associativity = "RIGHT")
  THEN [transition |-> [transition EXCEPT !.type = "REDUCE",
                                          !.iStateOrProduction = iProduction],
        error |-> ""]
  ELSE [transition |-> transition, error |-> ""]

\* Grammar::dealWithShiftReduceConflict
dealWithShiftReduceConflict(transition, symbol, iProduction, prods, syms) ==
  ShiftReduce(transition, symbol, iProduction,
              precedence(prods[iProduction + 1], syms))

\* variant of dealWithReduceReduceConflict that never overrides the reduce
\* stored first
ReduceReduceKeepsFirst(transition, iProduction, productionPrecedence, transitionPrecedence) ==
  IF \/ productionPrecedence = 0
     \/ transitionPrecedence = 0
     \/ productionPrecedence = transitionPrecedence
  THEN [transition |-> transition, error |-> "reduce/reduce conflict"]
  ELSE [transition |-> transition, error |-> ""]

\* Grammar::dealWithReduceReduceConflict, given the two precedences
ReduceReduce(transition, iProduction, productionPrecedence, transitionPrecedence) ==
  IF \/ productionPrecedence = 0
     \/ transitionPrecedence = 0
     \/ productionPrecedence = transitionPrecedence
  THEN [transition |-> transition, error |-> "reduce/reduce conflict"]
  ELSE IF productionPrecedence > transitionPrecedence
  THEN [transition |-> [transition EXCEPT !.iStateOrProduction = iProduction],
        error |-> ""]
  ELSE [transition |-> transition, error |-> ""]

\* Grammar::dealWithReduceReduceConflict
dealWithReduceReduceConflict(transition, iProduction, prods, syms) ==
  ReduceReduce(transition, iProduction,
               precedence(prods[iProduction + 1], syms),
               precedence(prods[transition.iStateOrProduction + 1], syms))

\* variant of the search that never finds a transition
SearchTransitionOnNone(trs, iSymbol, iTransition) == Len(trs) + 1

\* generateTransitions: the search of a transition on iSymbol, 1-based,
\* transitions.size() + 1 when there is none
RECURSIVE SearchTransitionOn(_, _, _)
SearchTransitionOn(trs, iSymbol, iTransition) ==
  IF iTransition > Len(trs) THEN iTransition
  ELSE IF trs[iTransition].iSymbol = iSymbol THEN iTransition
  ELSE SearchTransitionOn(trs, iSymbol, iTransition + 1)

ResolvedAt(trs, iTransition, r) ==
  [transitions |-> [trs EXCEPT ![iTransition] = r.transition], error |-> r.error]

\* generateTransitions: the body run for a symbol of the lookahead of a
\* reducible item, given the position found for iSymbol
ReduceAt(trs, iTransition, iSymbol, iProduction, prods, syms) ==
  IF iTransition = Len(trs) + 1
  THEN [transitions |-> insertReduceTransition(trs, iSymbol, iProduction),
        error |-> ""]
  ELSE IF trs[iTransition].type = "SHIFT"
  THEN ResolvedAt(trs, iTransition,
                  dealWithShiftReduceConflict(trs[iTransition], syms[iSymbol + 1],
                                              iProduction, prods, syms))
  ELSE ResolvedAt(trs, iTransition,
                  dealWithReduceReduceConflict(trs[iTransition], iProduction,
                                               prods, syms))

ReduceOn(trs, iSymbol, iProduction, prods, syms) ==
  ReduceAt(trs, SearchTransitionOn(trs, iSymbol, 1), iSymbol, iProduction,
           prods, syms)

\* generateTransitions: the (iState, iIItem, iSymbol) for which the body runs:
\* the item is reducible and the symbol is in its lookahead
ReducePositions(its, stItems, lks, prods, syms) ==
  {pos \in UNION {{<<s - 1, k - 1, a>> : k \in 1 .. Len(stItems[s]),
                                        a \in 0 .. Len(syms) - 1} :
                    s \in 1 .. Len(stItems)} :
     /\ its[stItems[pos[1] + 1][pos[2] + 1] + 1].position
          >= Len(prods[its[stItems[pos[1] + 1][pos[2] + 1] + 1].iProduction + 1]
                   .iRhsList)
     /\ pos[3] \in lks[stItems[pos[1] + 1][pos[2] + 1] + 1].symbolIs}

\* the order in which the three nested loops visit the positions
LoopBefore(p, q) ==
  \/ p[1] < q[1]
  \/ p[1] = q[1] /\ p[2] < q[2]
  \/ p[1] = q[1] /\ p[2] = q[2] /\ p[3] < q[3]

\* generateTransitions: the positions still to visit after pos
ReducePositionsAfter(all, pos) ==
  IF pos = <<>> THEN all ELSE {q \in all : LoopBefore(pos, q)}

FirstPosition(rest) == CHOOSE p \in rest : \A q \in rest : ~LoopBefore(q, p)

\* Grammar::generateRegexParser: the tokens given to createParserFromRegex
RECURSIVE TerminalTokens(_, _)
TerminalTokens(syms, iSymbol) ==
  IF iSymbol >= Len(syms) THEN <<>>
  ELSE (IF syms[iSymbol + 1].type = "TERMINAL_SYMBOL"
        THEN <<[str |-> syms[iSymbol + 1].name, iSymbol |-> iSymbol]>>
        ELSE <<>>)
         \o TerminalTokens(syms, iSymbol + 1)

generateRegexParser(wsTokens, syms) == wsTokens \o TerminalTokens(syms, 0)

-----------------------------------------------------------------------------
(* SpecGrammar: Grammar::Grammar runs its stages on a grammar               *)

\* errorEmitter: the message is printed and the program exits
errorEmitter(msg) == grammarError' = msg /\ pcG' = "error"

\* Grammar::addGenericSymbols
AddGenericSymbols ==
  /\ pcG = "addGenericSymbols"
  /\ symbols' = addGenericSymbols
  /\ pcG' = "parseTheGrammar"
  /\ UNCHANGED <<grammar, productions, currentPrecedence, whitespaceTokens, items,
                 stateItems, stateTransitions, lookaheads, iLookaheadsToInsert,
                 nextLookaheads, iLoop, iReduce, grammarError, iGotoSymbol, nInsert, rangeVars, matchVars, regexVars>>

Parsed(g) ==
  /\ symbols' = g.symbols
  /\ productions' = g.productions
  /\ currentPrecedence' = g.currentPrecedence
  /\ whitespaceTokens' = g.whitespaceTokens

\* Grammar::parseTheGrammar once no statement matches any more: a missing '}'
\* is only reported by diagnostic; the cursor that the second
\* matchWhiteSpaceOrComments leaves
GrammarEndAfterBrace(closed) ==
  IF closed.undefined THEN closed ELSE matchWhiteSpaceOrComments(matchChar(closed.ref, 125).ref)

GrammarEnd(ref) == GrammarEndAfterBrace(matchWhiteSpaceOrComments(ref))

GrammarEnded(e) ==
  IF e.undefined THEN pcG' = "undefined" /\ UNCHANGED grammarError
  ELSE IF e.ref # <<>> THEN errorEmitter("Unfinished parsing!")
  ELSE pcG' = "checkTheGrammar" /\ UNCHANGED grammarError

\* Grammar::parseTheGrammar: the statements of the body are parsed one by one,
\* iLoop counts those parsed so far; matchingRef is what the text holds after
\* the statements
ParseTheGrammar ==
  /\ pcG = "parseTheGrammar"
  /\ IF iLoop < Len(grammar)
     THEN /\ Parsed(parseTheGrammar([symbols |-> symbols, productions |-> productions,
                                     currentPrecedence |-> currentPrecedence,
                                     whitespaceTokens |-> whitespaceTokens],
                                    grammar, iLoop))
          /\ iLoop' = iLoop + 1
          /\ UNCHANGED pcG
          /\ UNCHANGED <<grammarError, matchingRef, matchingBack>>
     ELSE /\ iLoop' = 0
          /\ matchingBack' = matchingRef
          /\ matchingRef' = GrammarEnd(matchingRef).ref
          /\ GrammarEnded(GrammarEnd(matchingRef))
          /\ UNCHANGED <<symbols, productions, currentPrecedence, whitespaceTokens>>
  /\ UNCHANGED <<grammar, items, stateItems, stateTransitions, lookaheads,
                 iLookaheadsToInsert, nextLookaheads, iReduce,
                 iGotoSymbol, nInsert, rangeVars, matchingCall, matchingFailed,
                 matchingError, regexVars>>

Checked(msg) ==
  IF msg # "" THEN errorEmitter(msg)
  ELSE pcG' = "grammarOptimize" /\ UNCHANGED grammarError

\* Grammar::checkTheGrammar
CheckTheGrammar ==
  /\ pcG = "checkTheGrammar"
  /\ Checked(checkTheGrammar(symbols, productions))
  /\ UNCHANGED <<grammar, symbols, productions, currentPrecedence, whitespaceTokens,
                 items, stateItems, stateTransitions, lookaheads,
                 iLookaheadsToInsert, nextLookaheads, iLoop, iReduce, iGotoSymbol, nInsert, rangeVars, matchVars,
                 regexVars>>

Optimized(g) ==
  IF g.error # ""
  THEN errorEmitter(g.error) /\ UNCHANGED <<symbols, productions>>
  ELSE /\ symbols' = g.symbols
       /\ productions' = g.productions
       /\ UNCHANGED <<pcG, grammarError>>

OptimizeAt(iSymbol) ==
  IF iSymbol < Len(symbols)
  THEN Optimized(removeOneRedundantProductionIfFound(
                   [symbols |-> symbols, productions |-> productions, error |-> ""],
                   iSymbol))
  ELSE pcG' = "calculateFirsts" /\ UNCHANGED <<symbols, productions, grammarError>>

\* Grammar::grammarOptimize: one turn of the do-while loop
GrammarOptimize ==
  /\ pcG = "grammarOptimize"
  /\ OptimizeAt(FirstRedundant(symbols, productions, 0))
  /\ UNCHANGED <<grammar, currentPrecedence, whitespaceTokens, items, stateItems,
                 stateTransitions, lookaheads, iLookaheadsToInsert, nextLookaheads,
                 iLoop, iReduce, iGotoSymbol, nInsert, rangeVars, matchVars, regexVars>>

\* Grammar::calculateFirsts
CalculateFirsts ==
  /\ pcG = "calculateFirsts"
  /\ symbols' = calculateFirsts(symbols, productions)
  /\ pcG' = "calculateFollows"
  /\ UNCHANGED <<grammar, productions, currentPrecedence, whitespaceTokens, items,
                 stateItems, stateTransitions, lookaheads, iLookaheadsToInsert,
                 nextLookaheads, iLoop, iReduce, grammarError, iGotoSymbol, nInsert, rangeVars, matchVars, regexVars>>

\* Grammar::calculateFollows
CalculateFollows ==
  /\ pcG = "calculateFollows"
  /\ symbols' = calculateFollows(symbols, productions)
  /\ pcG' = "setPrecedence"
  /\ UNCHANGED <<grammar, productions, currentPrecedence, whitespaceTokens, items,
                 stateItems, stateTransitions, lookaheads, iLookaheadsToInsert,
                 nextLookaheads, iLoop, iReduce, grammarError, iGotoSymbol, nInsert, rangeVars, matchVars, regexVars>>

\* Grammar::setPrecedence
SetPrecedence ==
  /\ pcG = "setPrecedence"
  /\ productions' = setPrecedence(symbols, productions)
  /\ pcG' = "preComputeGotoStates"
  /\ UNCHANGED <<grammar, symbols, currentPrecedence, whitespaceTokens, items,
                 stateItems, stateTransitions, lookaheads, iLookaheadsToInsert,
                 nextLookaheads, iLoop, iReduce, grammarError, iGotoSymbol, nInsert, rangeVars, matchVars, regexVars>>

\* Grammar::preComputeGotoStates
PreComputeGotoStates ==
  /\ pcG = "preComputeGotoStates"
  /\ symbols' = preComputeGotoStates(symbols, productions)
  /\ pcG' = "generateStates"
  /\ UNCHANGED <<grammar, productions, currentPrecedence, whitespaceTokens, items,
                 stateItems, stateTransitions, lookaheads, iLookaheadsToInsert,
                 nextLookaheads, iLoop, iReduce, grammarError, iGotoSymbol, nInsert, rangeVars, matchVars, regexVars>>

StartState(c) ==
  /\ items' = c.items
  /\ stateItems' = <<c.iItems>>
  /\ stateTransitions' = <<<<>>>>

\* Grammar::generateStates: the start state and its closure; when the symbol
\* at iStartSymbol has no production, front() is called on an empty vector
\* and nothing is known of what follows
GenerateStartState ==
  /\ pcG = "generateStates"
  /\ IF symbols[iStartSymbol + 1].iProductions = <<>>
     THEN /\ pcG' = "undefined"
          /\ UNCHANGED <<items, stateItems, stateTransitions, iLoop>>
     ELSE /\ StartState(addClosure(<<0>>,
                 <<GrammarItem(symbols[iStartSymbol + 1].iProductions[1], 0)>>,
                 productions, symbols))
          /\ iLoop' = 0
          /\ pcG' = "createGotoState"
  /\ UNCHANGED <<grammar, symbols, productions, currentPrecedence, whitespaceTokens,
                 lookaheads, iLookaheadsToInsert, nextLookaheads, iReduce,
                 grammarError, iGotoSymbol, nInsert, rangeVars, matchVars, regexVars>>

GotoStates(st) ==
  /\ items' = st.items
  /\ stateItems' = st.stateItems
  /\ stateTransitions' = st.stateTransitions
  /\ IF iGotoSymbol + 1 < Len(symbols)
     THEN iGotoSymbol' = iGotoSymbol + 1 /\ UNCHANGED <<iLoop, pcG>>
     ELSE /\ iGotoSymbol' = 0
          /\ IF iLoop + 1 < Len(st.stateItems)
             THEN iLoop' = iLoop + 1 /\ UNCHANGED pcG
             ELSE iLoop' = 0 /\ pcG' = "addClosure"

\* Grammar::generateStates: the goto state of one state on one symbol; the
\* states are visited in the order of their indices, which is the order of
\* iStates
GenerateGotoStates ==
  /\ pcG = "createGotoState"
  /\ GotoStates(GotoStateOn([items |-> items, stateItems |-> stateItems,
                             stateTransitions |-> stateTransitions],
                            iLoop, iGotoSymbol, productions, symbols))
  /\ UNCHANGED <<grammar, symbols, productions, currentPrecedence, whitespaceTokens,
                 lookaheads, iLookaheadsToInsert, nextLookaheads, iReduce,
                 grammarError, nInsert, rangeVars, matchVars, regexVars>>

Closed(c) ==
  /\ items' = c.items
  /\ stateItems' = [stateItems EXCEPT ![iLoop + 1] = c.iItems]

\* Grammar::generateStates: the closure of one state, in the final loop
AddClosure ==
  /\ pcG = "addClosure"
  /\ Closed(addClosure(stateItems[iLoop + 1], items, productions, symbols))
  /\ IF iLoop + 1 < Len(stateItems)
     THEN iLoop' = iLoop + 1 /\ UNCHANGED pcG
     ELSE iLoop' = 0 /\ pcG' = "generateSpontaneousLookahead"
  /\ UNCHANGED <<grammar, symbols, productions, currentPrecedence, whitespaceTokens,
                 stateTransitions, lookaheads, iLookaheadsToInsert, nextLookaheads,
                 iReduce, grammarError, iGotoSymbol, nInsert, rangeVars, matchVars, regexVars>>

\* Grammar::generateSpontaneousLookahead
GenerateSpontaneousLookahead ==
  /\ pcG = "generateSpontaneousLookahead"
  /\ lookaheads' = generateSpontaneousLookahead(items, stateItems, productions,
                                                symbols)
  /\ pcG' = "generateGotoItems"
  /\ UNCHANGED <<grammar, symbols, productions, currentPrecedence, whitespaceTokens,
                 items, stateItems, stateTransitions, iLookaheadsToInsert,
                 nextLookaheads, iLoop, iReduce, grammarError, iGotoSymbol, nInsert, rangeVars, matchVars, regexVars>>

\* Grammar::generateGotoItems: one turn of the loop on the states.  A read
\* past the end of a rhs yields any value: when it differs from the symbol
\* of the transition the turn goes on, otherwise the empty optional returned
\* by findItem is dereferenced and nothing is known of what follows
GenerateGotoItems ==
  /\ pcG = "generateGotoItems"
  /\ \/ /\ lookaheads' = generateGotoItems(lookaheads, items, stateItems,
                                           stateTransitions, productions, symbols,
                                           iLoop)
        /\ ~\E k \in 1 .. Len(stateItems[iLoop + 1]) :
              Find(GotoItemsOf(items, stateItems, productions,
                               stateTransitions[iLoop + 1],
                               stateItems[iLoop + 1][k], 1), -1) # 0
        /\ IF iLoop + 1 < Len(stateItems)
           THEN iLoop' = iLoop + 1 /\ UNCHANGED pcG
           ELSE iLoop' = 0 /\ pcG' = "propagateLookaheads"
     \/ /\ GotoItemsUndefined(items, stateItems, stateTransitions, productions, iLoop)
        /\ pcG' = "undefined"
        /\ UNCHANGED <<lookaheads, iLoop>>
  /\ UNCHANGED <<grammar, symbols, productions, currentPrecedence, whitespaceTokens,
                 items, stateItems, stateTransitions, iLookaheadsToInsert,
                 nextLookaheads, iReduce, grammarError, iGotoSymbol, nInsert, rangeVars, matchVars, regexVars>>

\* Grammar::propagateLookaheads: the first frontier holds every item
BeginPropagateLookaheads ==
  /\ pcG = "propagateLookaheads"
  /\ iLookaheadsToInsert' = Vector([k \in 1 .. Len(lookaheads) |-> k - 1])
  /\ nextLookaheads' = <<>>
  /\ iLoop' = 0
  /\ pcG' = "insert"
  /\ UNCHANGED <<grammar, symbols, productions, currentPrecedence, whitespaceTokens,
                 items, stateItems, stateTransitions, lookaheads, iReduce,
                 grammarError, iGotoSymbol, nInsert, rangeVars, matchVars, regexVars>>

Propagated(acc) ==
  /\ lookaheads' = acc.lookaheads
  /\ nextLookaheads' = acc.nextLookaheads

\* Grammar::propagateLookaheads: one element of the frontier, or the swap of
\* the frontiers at the end of a round
PropagateLookaheads ==
  /\ pcG = "insert"
  /\ IF iLoop < Len(iLookaheadsToInsert)
     THEN /\ Propagated(propagateLookaheads(lookaheads, nextLookaheads,
                                            iLookaheadsToInsert[iLoop + 1]))
          /\ nInsert' = nInsert
               + Len(lookaheads[iLookaheadsToInsert[iLoop + 1] + 1].iPropagateToItems)
          /\ iLoop' = iLoop + 1
          /\ UNCHANGED <<iLookaheadsToInsert, pcG>>
     ELSE /\ iLookaheadsToInsert' = nextLookaheads
          /\ nextLookaheads' = <<>>
          /\ iLoop' = 0
          /\ pcG' = IF nextLookaheads = <<>> THEN "generateTransitions" ELSE "insert"
          /\ UNCHANGED <<lookaheads, nInsert>>
  /\ UNCHANGED <<grammar, symbols, productions, currentPrecedence, whitespaceTokens,
                 items, stateItems, stateTransitions, iReduce, grammarError,
                 iGotoSymbol, rangeVars, matchVars, regexVars>>

Reduced(pos, r) ==
  /\ stateTransitions' = [stateTransitions EXCEPT ![pos[1] + 1] = r.transitions]
  /\ iReduce' = pos
  /\ IF r.error # "" THEN errorEmitter(r.error)
     ELSE UNCHANGED <<pcG, grammarError>>

ReduceAtPosition(pos) ==
  Reduced(pos, ReduceOn(stateTransitions[pos[1] + 1], pos[3],
                        items[stateItems[pos[1] + 1][pos[2] + 1] + 1].iProduction,
                        productions, symbols))

ReduceNext(rest) ==
  IF rest = {}
  THEN pcG' = "generateRegexParser"
       /\ UNCHANGED <<stateTransitions, iReduce, grammarError>>
  ELSE ReduceAtPosition(FirstPosition(rest))

\* Grammar::generateTransitions: the next symbol of the lookahead of a
\* reducible item, in the order of the loops, or the end of the loops
GenerateTransitions ==
  /\ pcG = "generateTransitions"
  /\ ReduceNext(ReducePositionsAfter(
                  ReducePositions(items, stateItems, lookaheads, productions, symbols),
                  iReduce))
  /\ UNCHANGED <<grammar, symbols, productions, currentPrecedence, whitespaceTokens,
                 items, stateItems, lookaheads, iLookaheadsToInsert, nextLookaheads,
                 iLoop, iGotoSymbol, nInsert, rangeVars, matchVars, regexVars>>

\* Grammar::generateRegexParser, up to the call of createParserFromRegex
GenerateRegexParser ==
  /\ pcG = "generateRegexParser"
  /\ regexTokens' = generateRegexParser(whitespaceTokens, symbols)
  /\ pcR' = "create"
  /\ pcG' = "createParserFromRegex"
  /\ UNCHANGED <<grammar, symbols, productions, currentPrecedence, whitespaceTokens,
                 items, stateItems, stateTransitions, lookaheads,
                 iLookaheadsToInsert, nextLookaheads, iLoop, iReduce, grammarError,
                 iGotoSymbol, nInsert, rangeVars, matchVars, parseTree, dStateLabels, acceptingDStates, transitions,
                 iDState, dStates, regexError, input, nRemoved, dState, parseResult>>

NextGrammar ==
  \/ AddGenericSymbols
  \/ ParseTheGrammar
  \/ CheckTheGrammar
  \/ GrammarOptimize
  \/ CalculateFirsts
  \/ CalculateFollows
  \/ SetPrecedence
  \/ PreComputeGotoStates
  \/ GenerateStartState
  \/ GenerateGotoStates
  \/ AddClosure
  \/ GenerateSpontaneousLookahead
  \/ GenerateGotoItems
  \/ BeginPropagateLookaheads
  \/ PropagateLookaheads
  \/ GenerateTransitions
  \/ GenerateRegexParser
  \/ CreateParser
  \/ ProcessDState
  \/ FinishParser

\* the constructor returned: the grammar is constructed
Constructed == pcG = "createParserFromRegex" /\ pcR = "ready"

\* the constructor stopped in errorEmitter
Failed == pcG = "error" \/ (pcG = "createParserFromRegex" /\ pcR = "error")

-----------------------------------------------------------------------------
(* The grammars given to Grammar::Grammar, as the statements of their body  *)

\* a symbol occurrence: a literal '...', a regex "...", an identifier, or the
\* word error
Literal(text) == [kind |-> "literal", text |-> text]
Regex(text) == [kind |-> "regex", text |-> text]
Id(text) == [kind |-> "id", text |-> text]
ErrorToken == [kind |-> "error"]

\* %none, %left or %right followed by symbols
Associativity(associativity, syms) ==
  [stmt |-> "associativity", associativity |-> associativity, syms |-> syms]

\* %whitespace followed by regexes
Whitespace(regexes) == [stmt |-> "whitespace", regexes |-> regexes]

\* lhs ':' alternatives separated by '|'
Production(lhs, alts) == [stmt |-> "production", lhs |-> lhs, alts |-> alts]

\* rhs symbols, optional %precedence symbol, optional [action]
Alternative(rhs, prec, action) ==
  [rhs |-> rhs, precedence |-> prec, action |-> action]

\* S: L 'e' R | R;
\* L: 's' R | 'i';
\* R: L;
lalrProductions ==
  <<Production(<<83>>,
       <<Alternative(<<Id(<<76>>), Literal(<<101>>), Id(<<82>>)>>, <<>>, <<>>),
         Alternative(<<Id(<<82>>)>>, <<>>, <<>>)>>),
    Production(<<76>>,
       <<Alternative(<<Literal(<<115>>), Id(<<82>>)>>, <<>>, <<>>),
         Alternative(<<Literal(<<105>>)>>, <<>>, <<>>)>>),
    Production(<<82>>,
       <<Alternative(<<Id(<<76>>)>>, <<>>, <<>>)>>)>>

\* s: 'a' s 'b' | 'c';
nestedProductions ==
  <<Production(<<115>>,
       <<Alternative(<<Literal(<<97>>), Id(<<115>>), Literal(<<98>>)>>, <<>>, <<>>),
         Alternative(<<Literal(<<99>>)>>, <<>>, <<>>)>>)>>

\* expr: expr '+' expr | integer;
\* integer: "[0-9]+";
exprProductions ==
  <<Production(<<101, 120, 112, 114>>,
       <<Alternative(<<Id(<<101, 120, 112, 114>>), Literal(<<43>>), Id(<<101, 120, 112, 114>>)>>, <<>>, <<>>),
         Alternative(<<Id(<<105, 110, 116, 101, 103, 101, 114>>)>>, <<>>, <<>>)>>),
    Production(<<105, 110, 116, 101, 103, 101, 114>>,
       <<Alternative(<<Regex(<<91, 48, 45, 57, 93, 43>>)>>, <<>>, <<>>)>>)>>

\* e: e 'p' e | e 't' e | 'i';
binaryProductions ==
  <<Production(<<101>>,
       <<Alternative(<<Id(<<101>>), Literal(<<112>>), Id(<<101>>)>>, <<>>, <<>>),
         Alternative(<<Id(<<101>>), Literal(<<116>>), Id(<<101>>)>>, <<>>, <<>>),
         Alternative(<<Literal(<<105>>)>>, <<>>, <<>>)>>)>>

\* s: x 'c' | y 'c';
\* x: 'q' %precedence 'a' [ax];
\* y: 'q' %precedence 'b' [ay];
reduceProductions ==
  <<Production(<<115>>,
       <<Alternative(<<Id(<<120>>), Literal(<<99>>)>>, <<>>, <<>>),
         Alternative(<<Id(<<121>>), Literal(<<99>>)>>, <<>>, <<>>)>>),
    Production(<<120>>,
       <<Alternative(<<Literal(<<113>>)>>, <<Literal(<<97>>)>>, <<97, 120>>)>>),
    Production(<<121>>,
       <<Alternative(<<Literal(<<113>>)>>, <<Literal(<<98>>)>>, <<97, 121>>)>>)>>

\* %whitespace "[ \t\r\n]*";
\* %left '+' '-';
\* %left '*' '/';
\* %none integer;
\* stmts: stmts stmt | stmt ;
\* stmt: expr ';' [result];
\* expr: expr '+' expr [add] | expr '-' expr [sub] | expr '*' expr [mul]
\*     | expr '/' expr [div] | '(' expr ')' [group] | integer [int];
\* integer: "[0-9]+";
calcGrammar ==
  <<Whitespace(<<<<91, 32, 92, 116, 92, 114, 92, 110, 93, 42>>>>),
    Associativity("LEFT", <<Literal(<<43>>), Literal(<<45>>)>>),
    Associativity("LEFT", <<Literal(<<42>>), Literal(<<47>>)>>),
    Associativity("NONE", <<Id(<<105, 110, 116, 101, 103, 101, 114>>)>>),
    Production(<<115, 116, 109, 116, 115>>,
       <<Alternative(<<Id(<<115, 116, 109, 116, 115>>), Id(<<115, 116, 109, 116>>)>>, <<>>, <<>>),
         Alternative(<<Id(<<115, 116, 109, 116>>)>>, <<>>, <<>>)>>),
    Production(<<115, 116, 109, 116>>,
       <<Alternative(<<Id(<<101, 120, 112, 114>>), Literal(<<59>>)>>, <<>>, <<114, 101, 115, 117, 108, 116>>)>>),
    Production(<<101, 120, 112, 114>>,
       <<Alternative(<<Id(<<101, 120, 112, 114>>), Literal(<<43>>), Id(<<101, 120, 112, 114>>)>>, <<>>, <<97, 100, 100>>),
         Alternative(<<Id(<<101, 120, 112, 114>>), Literal(<<45>>), Id(<<101, 120, 112, 114>>)>>, <<>>, <<115, 117, 98>>),
         Alternative(<<Id(<<101, 120, 112, 114>>), Literal(<<42>>), Id(<<101, 120, 112, 114>>)>>, <<>>, <<109, 117, 108>>),
         Alternative(<<Id(<<101, 120, 112, 114>>), Literal(<<47>>), Id(<<101, 120, 112, 114>>)>>, <<>>, <<100, 105, 118>>),
         Alternative(<<Literal(<<40>>), Id(<<101, 120, 112, 114>>), Literal(<<41>>)>>, <<>>, <<103, 114, 111, 117, 112>>),
         Alternative(<<Id(<<105, 110, 116, 101, 103, 101, 114>>)>>, <<>>, <<105, 110, 116>>)>>),
    Production(<<105, 110, 116, 101, 103, 101, 114>>,
       <<Alternative(<<Regex(<<91, 48, 45, 57, 93, 43>>)>>, <<>>, <<>>)>>)>>

\* %whitespace "[ \t\r\n]+";
\* %left '<' '>';
\* %left name;
\* document: prolog element [document];
\* prolog: "<\?xml" attributes "\?>" | ;
\* elements: elements element [add_element] | element [create_element]
\*         | %precedence '<';
\* element: '<' name attributes '/>' [short_element]
\*        | '<' name attributes '>' elements '</' name '>' [long_element];
\* attributes: attributes attribute [add_attribute] | attribute [create_attribute]
\*           | %precedence name;
\* attribute: name '=' value [attribute];
\* name: "[A-Za-z_:][A-Za-z0-9_:\.-]*";
\* value: "[\"']:string:";
xmlGrammar ==
  <<Whitespace(<<<<91, 32, 92, 116, 92, 114, 92, 110, 93, 43>>>>),
    Associativity("LEFT", <<Literal(<<60>>), Literal(<<62>>)>>),
    Associativity("LEFT", <<Id(<<110, 97, 109, 101>>)>>),
    Production(<<100, 111, 99, 117, 109, 101, 110, 116>>,
       <<Alternative(<<Id(<<112, 114, 111, 108, 111, 103>>), Id(<<101, 108, 101, 109, 101, 110, 116>>)>>, <<>>, <<100, 111, 99, 117, 109, 101, 110, 116>>)>>),
    Production(<<112, 114, 111, 108, 111, 103>>,
       <<Alternative(<<Regex(<<60, 92, 63, 120, 109, 108>>), Id(<<97, 116, 116, 114, 105, 98, 117, 116, 101, 115>>), Regex(<<92, 63, 62>>)>>, <<>>, <<>>),
         Alternative(<<>>, <<>>, <<>>)>>),
    Production(<<101, 108, 101, 109, 101, 110, 116, 115>>,
       <<Alternative(<<Id(<<101, 108, 101, 109, 101, 110, 116, 115>>), Id(<<101, 108, 101, 109, 101, 110, 116>>)>>, <<>>, <<97, 100, 100, 95, 101, 108, 101, 109, 101, 110, 116>>),
         Alternative(<<Id(<<101, 108, 101, 109, 101, 110, 116>>)>>, <<>>, <<99, 114, 101, 97, 116, 101, 95, 101, 108, 101, 109, 101, 110, 116>>),
         Alternative(<<>>, <<Literal(<<60>>)>>, <<>>)>>),
    Production(<<101, 108, 101, 109, 101, 110, 116>>,
       <<Alternative(<<Literal(<<60>>), Id(<<110, 97, 109, 101>>), Id(<<97, 116, 116, 114, 105, 98, 117, 116, 101, 115>>), Literal(<<47, 62>>)>>, <<>>, <<115, 104, 111, 114, 116, 95, 101, 108, 101, 109, 101, 110, 116>>),
         Alternative(<<Literal(<<60>>), Id(<<110, 97, 109, 101>>), Id(<<97, 116, 116, 114, 105, 98, 117, 116, 101, 115>>), Literal(<<62>>), Id(<<101, 108, 101, 109, 101, 110, 116, 115>>), Literal(<<60, 47>>), Id(<<110, 97, 109, 101>>), Literal(<<62>>)>>, <<>>, <<108, 111, 110, 103, 95, 101, 108, 101, 109, 101, 110, 116>>)>>),
    Production(<<97, 116, 116, 114, 105, 98, 117, 116, 101, 115>>,
       <<Alternative(<<Id(<<97, 116, 116, 114, 105, 98, 117, 116, 101, 115>>), Id(<<97, 116, 116, 114, 105, 98, 117, 116, 101>>)>>, <<>>, <<97, 100, 100, 95, 97, 116, 116, 114, 105, 98, 117, 116, 101>>),
         Alternative(<<Id(<<97, 116, 116, 114, 105, 98, 117, 116, 101>>)>>, <<>>, <<99, 114, 101, 97, 116, 101, 95, 97, 116, 116, 114, 105, 98, 117, 116, 101>>),
         Alternative(<<>>, <<Id(<<110, 97, 109, 101>>)>>, <<>>)>>),
    Production(<<97, 116, 116, 114, 105, 98, 117, 116, 101>>,
       <<Alternative(<<Id(<<110, 97, 109, 101>>), Literal(<<61>>), Id(<<118, 97, 108, 117, 101>>)>>, <<>>, <<97, 116, 116, 114, 105, 98, 117, 116, 101>>)>>),
    Production(<<110, 97, 109, 101>>,
       <<Alternative(<<Regex(<<91, 65, 45, 90, 97, 45, 122, 95, 58, 93, 91, 65, 45, 90, 97, 45, 122, 48, 45, 57, 95, 58, 92, 46, 45, 93, 42>>)>>, <<>>, <<>>)>>),
    Production(<<118, 97, 108, 117, 101>>,
       <<Alternative(<<Regex(<<91, 92, 34, 39, 93, 58, 115, 116, 114, 105, 110, 103, 58>>)>>, <<>>, <<>>)>>)>>

\* the associativities of a statement
Associativities == {"NONE", "LEFT", "RIGHT"}

\* binaryProductions after no declaration, after one statement on 'p' and
\* 't', after one statement on 'p' and one on 't'
binaryGrammars ==
  {binaryProductions}
    \cup {<<Associativity(a, <<Literal(<<112>>), Literal(<<116>>)>>)>> \o binaryProductions :
            a \in Associativities}
    \cup {<<Associativity(a, <<Literal(<<112>>)>>), Associativity(b, <<Literal(<<116>>)>>)>>
            \o binaryProductions : a, b \in Associativities}

\* reduceProductions after %left on 'a' then 'b', on 'b' then 'a', on both
\* in one statement, on 'a' only
reduceGrammars ==
  {<<Associativity("LEFT", <<Literal(<<97>>)>>), Associativity("LEFT", <<Literal(<<98>>)>>)>>
     \o reduceProductions,
   <<Associativity("LEFT", <<Literal(<<98>>)>>), Associativity("LEFT", <<Literal(<<97>>)>>)>>
     \o reduceProductions,
   <<Associativity("LEFT", <<Literal(<<97>>), Literal(<<98>>)>>)>> \o reduceProductions,
   <<Associativity("LEFT", <<Literal(<<97>>)>>)>> \o reduceProductions}

\* s: x 'a';    with no production of x
undefinedProductions ==
  <<Production(<<115>>,
       <<Alternative(<<Id(<<120>>), Literal(<<97>>)>>, <<>>, <<>>)>>)>>

\* %left n; %left "r";
\* s: n 'a';
\* n: "r";
aliasGrammar ==
  <<Associativity("LEFT", <<Id(<<110>>)>>),
    Associativity("LEFT", <<Regex(<<114>>)>>),
    Production(<<115>>,
       <<Alternative(<<Id(<<110>>), Literal(<<97>>)>>, <<>>, <<>>)>>),
    Production(<<110>>,
       <<Alternative(<<Regex(<<114>>)>>, <<>>, <<>>)>>)>>

\* S: N N N N N N N N;
\* N: | 'a' | 'b' | 'a' 'a' | 'a' 'b' | 'b' 'a' | 'b' 'b';
chainGrammar ==
  <<Production(<<83>>,
       <<Alternative(<<Id(<<78>>), Id(<<78>>), Id(<<78>>), Id(<<78>>),
                       Id(<<78>>), Id(<<78>>), Id(<<78>>), Id(<<78>>)>>, <<>>, <<>>)>>),
    Production(<<78>>,
       <<Alternative(<<>>, <<>>, <<>>),
         Alternative(<<Literal(<<97>>)>>, <<>>, <<>>),
         Alternative(<<Literal(<<98>>)>>, <<>>, <<>>),
         Alternative(<<Literal(<<97>>), Literal(<<97>>)>>, <<>>, <<>>),
         Alternative(<<Literal(<<97>>), Literal(<<98>>)>>, <<>>, <<>>),
         Alternative(<<Literal(<<98>>), Literal(<<97>>)>>, <<>>, <<>>),
         Alternative(<<Literal(<<98>>), Literal(<<98>>)>>, <<>>, <<>>)>>)>>

\* A: 'a' 'b' 'c';
followsGrammar ==
  <<Production(<<65>>,
       <<Alternative(<<Literal(<<97>>), Literal(<<98>>), Literal(<<99>>)>>,
                     <<>>, <<>>)>>)>>

\* s: expr 'a';
\* number: "[0-9]+";
\* expr: number;
numberGrammar ==
  <<Production(<<115>>,
       <<Alternative(<<Id(<<101, 120, 112, 114>>), Literal(<<97>>)>>, <<>>, <<>>)>>),
    Production(<<110, 117, 109, 98, 101, 114>>,
       <<Alternative(<<Regex(<<91, 48, 45, 57, 93, 43>>)>>, <<>>, <<>>)>>),
    Production(<<101, 120, 112, 114>>,
       <<Alternative(<<Id(<<110, 117, 109, 98, 101, 114>>)>>, <<>>, <<>>)>>)>>

\* s: 'a';
startAliasGrammar ==
  <<Production(<<115>>, <<Alternative(<<Literal(<<97>>)>>, <<>>, <<>>)>>)>>

\* S: 'a' A | 'b' B;
\* A: P | Q;
\* B: Q | P;
\* P: 'x' 'p';
\* Q: 'x' 'q';
orderGrammar ==
  <<Production(<<83>>,
       <<Alternative(<<Literal(<<97>>), Id(<<65>>)>>, <<>>, <<>>),
         Alternative(<<Literal(<<98>>), Id(<<66>>)>>, <<>>, <<>>)>>),
    Production(<<65>>,
       <<Alternative(<<Id(<<80>>)>>, <<>>, <<>>),
         Alternative(<<Id(<<81>>)>>, <<>>, <<>>)>>),
    Production(<<66>>,
       <<Alternative(<<Id(<<81>>)>>, <<>>, <<>>),
         Alternative(<<Id(<<80>>)>>, <<>>, <<>>)>>),
    Production(<<80>>,
       <<Alternative(<<Literal(<<120>>), Literal(<<112>>)>>, <<>>, <<>>)>>),
    Production(<<81>>,
       <<Alternative(<<Literal(<<120>>), Literal(<<113>>)>>, <<>>, <<>>)>>)>>

\* s: 'a' '.';
dotGrammar ==
  <<Production(<<115>>,
       <<Alternative(<<Literal(<<97>>), Literal(<<46>>)>>, <<>>, <<>>)>>)>>

\* the grammars without any precedence or associativity declaration
plainGrammars == {lalrProductions, nestedProductions, exprProductions}

Grammars ==
  plainGrammars \cup binaryGrammars \cup reduceGrammars
    \cup {calcGrammar, xmlGrammar, undefinedProductions, aliasGrammar,
          chainGrammar, followsGrammar, numberGrammar, startAliasGrammar,
          orderGrammar, dotGrammar}

\* what follows the statements in the text of the grammar: "}" for every
\* grammar; for followsGrammar also nothing, " ", "} ", "}a" and "]"
GrammarEnds(g) ==
  IF g = followsGrammar
  THEN {<<125>>, <<>>, <<32>>, <<125, 32>>, <<125, 97>>, <<93>>}
  ELSE {<<125>>}

InitGrammar ==
  /\ IdleRanges
  /\ IdleRegex
  /\ grammar \in Grammars
  /\ matchingRef \in GrammarEnds(grammar)
  /\ matchingBack = <<>> /\ matchingCall = "none"
  /\ matchingFailed = FALSE /\ matchingError = ""
  /\ symbols = <<>> /\ productions = <<>>
  /\ currentPrecedence = 0 /\ whitespaceTokens = <<>> /\ items = <<>>
  /\ stateItems = <<>> /\ stateTransitions = <<>> /\ lookaheads = <<>>
  /\ iLookaheadsToInsert = <<>> /\ nextLookaheads = <<>> /\ iLoop = 0
  /\ iGotoSymbol = 0
  /\ iReduce = <<>> /\ pcG = "addGenericSymbols"
  /\ grammarError = "" /\ nInsert = 0

SpecGrammar == InitGrammar /\ [][NextGrammar]_vars

\* the loop of propagateLookaheads, once entered, runs on until its condition
\* fails
SpecGrammarFair == SpecGrammar /\ WF_vars(PropagateLookaheads)

-----------------------------------------------------------------------------
(* Reference: the LALR(1) test obtained from the canonical LR(1) collection *)
(* of the productions, the lookaheads of the states sharing a core united   *)

\* the symbols from which the empty string derives
RECURSIVE RefNullable(_, _)
RefNullableNext(prods, N, N2) == IF N2 = N THEN N ELSE RefNullable(prods, N2)

RefNullable(prods, N) ==
  RefNullableNext(prods, N,
    N \cup {prods[k].iLhs : k \in
              {k \in 1 .. Len(prods) :
                 \A r \in 1 .. Len(prods[k].iRhsList) : prods[k].iRhsList[r] \in N}})

\* the terminals that begin the strings derived from seq[i], seq[i+1], ...
RECURSIVE RefFirstOfSeq(_, _, _, _)
RefFirstOfSeq(F, N, seq, i) ==
  IF i > Len(seq) THEN {}
  ELSE F[seq[i]] \cup (IF seq[i] \in N THEN RefFirstOfSeq(F, N, seq, i + 1) ELSE {})

RefNullableSeq(N, seq, i) == \A r \in i .. Len(seq) : seq[r] \in N

RECURSIVE RefFirst(_, _, _)
RefFirstNext(prods, N, F, F2) == IF F2 = F THEN F ELSE RefFirst(prods, N, F2)

RefFirst(prods, N, F) ==
  RefFirstNext(prods, N, F,
    [a \in DOMAIN F |->
       F[a] \cup UNION {RefFirstOfSeq(F, N, prods[k].iRhsList, 1) :
                          k \in {k \in 1 .. Len(prods) : prods[k].iLhs = a}}])

\* FIRST of every symbol: a terminal begins itself
RefFirsts(prods, syms) ==
  RefFirst(prods, RefNullable(prods, {}),
           [a \in 0 .. Len(syms) - 1 |->
              IF syms[a + 1].type = "NON_TERMINAL_SYMBOL" THEN {} ELSE {a}])

\* an LR(1) item is <<k, position, a>>: production k (from 1), lookahead a
RefItemsAfter(prods, N, F, it) ==
  IF it[2] >= Len(prods[it[1]].iRhsList) THEN {}
  ELSE {<<q, 0, b>> :
          q \in {q \in 1 .. Len(prods) :
                   prods[q].iLhs = prods[it[1]].iRhsList[it[2] + 1]},
          b \in RefFirstOfSeq(F, N, prods[it[1]].iRhsList, it[2] + 2)
                  \cup (IF RefNullableSeq(N, prods[it[1]].iRhsList, it[2] + 2)
                        THEN {it[3]} ELSE {})}

RECURSIVE RefClosure(_, _, _, _)
RefClosureNext(prods, N, F, I, I2) ==
  IF I2 = I THEN I ELSE RefClosure(prods, N, F, I2)

RefClosure(prods, N, F, I) ==
  RefClosureNext(prods, N, F, I,
                 I \cup UNION {RefItemsAfter(prods, N, F, it) : it \in I})

RefGoto(prods, N, F, I, X) ==
  RefClosure(prods, N, F,
             {<<it[1], it[2] + 1, it[3]>> :
                it \in {it \in I : /\ it[2] < Len(prods[it[1]].iRhsList)
                                   /\ prods[it[1]].iRhsList[it[2] + 1] = X}})

\* the canonical collection of sets of LR(1) items
RECURSIVE RefStates(_, _, _, _, _)
RefStatesNext(prods, n, N, F, C, C2) ==
  IF C2 = C THEN C ELSE RefStates(prods, n, N, F, C2)

RefStates(prods, n, N, F, C) ==
  RefStatesNext(prods, n, N, F, C,
                C \cup ({RefGoto(prods, N, F, I, X) : I \in C, X \in 0 .. n - 1}
                          \ {{}}))

RefCore(I) == {<<it[1], it[2]>> : it \in I}

\* the union of the states of the collection that share the core of I
RefMerged(C, I) == UNION {J \in C : RefCore(J) = RefCore(I)}

\* a reducible item of M whose lookahead is also shifted, or is also the
\* lookahead of another reducible item
RefConflict(prods, M) ==
  \E it \in M :
    /\ it[2] >= Len(prods[it[1]].iRhsList)
    /\ \E ot \in M :
         \/ /\ ot[2] < Len(prods[ot[1]].iRhsList)
            /\ prods[ot[1]].iRhsList[ot[2] + 1] = it[3]
         \/ /\ ot[2] >= Len(prods[ot[1]].iRhsList)
            /\ ot[1] # it[1]
            /\ ot[3] = it[3]

RefConflictFree(prods, C) == \A I \in C : ~RefConflict(prods, RefMerged(C, I))

RefLALRWith(prods, n, N, F) ==
  RefConflictFree(prods,
    RefStates(prods, n, N, F, {RefClosure(prods, N, F, {<<1, 0, iEndSymbol>>})}))

\* the grammar made of the productions prods over the symbols syms is LALR(1)
RefIsLALR(prods, syms) ==
  RefLALRWith(prods, Len(syms), RefNullable(prods, {}), RefFirsts(prods, syms))

-----------------------------------------------------------------------------
(* Properties of SpecGrammar                                                *)

\* the production reduced at the position pos of the loops of
\* generateTransitions
ProductionAt(pos) == items[stateItems[pos[1] + 1][pos[2] + 1] + 1].iProduction

\* the transitions of kind type on iSymbol in the list trs
TransitionsOn(trs, iSymbol, type) ==
  {t \in 1 .. Len(trs) : trs[t].iSymbol = iSymbol /\ trs[t].type = type}

\* state s holds a reducible item with iSymbol in its lookahead
ReducesOn(s, iSymbol) ==
  {k \in 1 .. Len(stateItems[s]) :
     /\ items[stateItems[s][k] + 1].position
          >= Len(productions[items[stateItems[s][k] + 1].iProduction + 1].iRhsList)
     /\ iSymbol \in lookaheads[stateItems[s][k] + 1].symbolIs}

\* C2 as stated: the construction of a grammar without declarations that is
\* LALR(1) (no conflict once the lookaheads of the canonical LR(1) states
\* sharing a core are united) reports no shift/reduce and no reduce/reduce
\* conflict.
C2_AsStated ==
  grammarError \in {"shift/reduce conflict", "reduce/reduce conflict"}
    => ~(grammar \in plainGrammars /\ RefIsLALR(productions, symbols))

\* C3: in a constructed grammar no state holds two transitions on one symbol.
C3_OneTransitionPerSymbol ==
  Constructed =>
    \A s \in 1 .. Len(stateTransitions) :
      \A t, u \in 1 .. Len(stateTransitions[s]) :
        stateTransitions[s][t].iSymbol = stateTransitions[s][u].iSymbol => t = u

\* C3 witness: a constructed grammar with a state where a reduce has replaced
\* a shift (it stands before a shift in the list) and a reduce was appended
C3_Witness ==
  /\ Constructed
  /\ \E s \in 1 .. Len(stateTransitions) :
       \E t, u, v \in 1 .. Len(stateTransitions[s]) :
         /\ t < u /\ u < v
         /\ stateTransitions[s][t].type = "REDUCE"
         /\ stateTransitions[s][u].type = "SHIFT"
         /\ stateTransitions[s][v].type = "REDUCE"

C4_Rule(pos, P, a, trs) ==
  \A t \in TransitionsOn(trs, pos[3], "SHIFT") :
    IF \/ precedence(P, symbols) = 0
       \/ a.precedence = 0
       \/ (precedence(P, symbols) = a.precedence /\ a.associativity = "NONE")
    THEN pcG' = "error" /\ grammarError' = "shift/reduce conflict"
    ELSE /\ pcG' = "generateTransitions"
         /\ grammarError' = ""
         /\ stateTransitions'[pos[1] + 1] =
              IF \/ precedence(P, symbols) > a.precedence
                 \/ (precedence(P, symbols) = a.precedence
                     /\ a.associativity = "RIGHT")
              THEN [trs EXCEPT ![t] = [iSymbol |-> pos[3], type |-> "REDUCE",
                                       iStateOrProduction |-> ProductionAt(pos)]]
              ELSE trs

C4_Step ==
  (pcG = "generateTransitions" /\ iReduce' # iReduce)
    => C4_Rule(iReduce', productions[ProductionAt(iReduce') + 1],
               symbols[iReduce'[3] + 1], stateTransitions[iReduce'[1] + 1])

\* the grammar of expr : expr '+' expr | integer; is never constructed and the
\* only message it ends with is the shift/reduce one
C4_Example ==
  grammar = exprProductions =>
    /\ pcG \notin {"generateRegexParser", "createParserFromRegex"}
    /\ pcG = "error" => grammarError = "shift/reduce conflict"

C5_Rule(pos, trs) ==
  \A t \in TransitionsOn(trs, pos[3], "REDUCE") :
    IF \/ precedence(productions[ProductionAt(pos) + 1], symbols) = 0
       \/ precedence(productions[trs[t].iStateOrProduction + 1], symbols) = 0
       \/ precedence(productions[ProductionAt(pos) + 1], symbols)
            = precedence(productions[trs[t].iStateOrProduction + 1], symbols)
    THEN pcG' = "error" /\ grammarError' = "reduce/reduce conflict"
    ELSE /\ pcG' = "generateTransitions"
         /\ grammarError' = ""
         /\ stateTransitions'[pos[1] + 1] =
              [trs EXCEPT ![t].iStateOrProduction =
                 IF precedence(productions[ProductionAt(pos) + 1], symbols)
                      > precedence(productions[trs[t].iStateOrProduction + 1],
                                   symbols)
                 THEN ProductionAt(pos) ELSE @]

C5_Step ==
  (pcG = "generateTransitions" /\ iReduce' # iReduce)
    => C5_Rule(iReduce', stateTransitions[iReduce'[1] + 1])

\* C5: a reduce by P inserted on a symbol on which the state holds a reduce by
\* Q fails with a reduce/reduce error when prec(P) = 0, prec(Q) = 0 or
\* prec(P) = prec(Q); else the state keeps exactly the reduce of the
\* production of higher precedence, whichever was inserted first.
C5_ReduceReduceRule == [][C5_Step]_vars

\* C5 witness: a constructed grammar with a state where two reducible items
\* share a lookahead symbol and the only transition on it is the reduce by the
\* production inserted second
C5_Witness ==
  /\ Constructed
  /\ \E s \in 1 .. Len(stateItems) :
       \E a \in 0 .. Len(symbols) - 1 :
         \E k, l \in ReducesOn(s, a) :
           /\ k < l
           /\ \A t \in 1 .. Len(stateTransitions[s]) :
                stateTransitions[s][t].iSymbol = a
                  => /\ stateTransitions[s][t].type = "REDUCE"
                     /\ stateTransitions[s][t].iStateOrProduction
                          = items[stateItems[s][l] + 1].iProduction
           /\ TransitionsOn(stateTransitions[s], a, "REDUCE") # {}

\* C6 as stated: the construction of the calc grammar, the composite scanner
\* included, ends with no conflict and no error.
C6_AsStated == grammar = calcGrammar => ~Failed

\* C7: the construction of the XML grammar of the test raises no error: the
\* shift/reduce collisions it meets are resolved by precedence.
C7_XmlConflictFree ==
  grammar = xmlGrammar => ~Failed /\ pcG # "undefined" /\ grammarError = ""

\* C7 witness: the XML grammar is constructed, scanner included, and a state
\* keeps a shift on a symbol that is in the lookahead of one of its reducible
\* items
C7_Witness ==
  /\ grammar = xmlGrammar
  /\ Constructed
  /\ \E s \in 1 .. Len(stateItems) :
       \E a \in 0 .. Len(symbols) - 1 :
         /\ ReducesOn(s, a) # {}
         /\ TransitionsOn(stateTransitions[s], a, "SHIFT") # {}


\* a step of the propagation loop leaves every bit that is set in the
\* lookahead of an item
C13_Step ==
  pcG = "insert" =>
    \A k \in 1 .. Len(lookaheads) :
      lookaheads[k].symbolIs \subseteq lookaheads'[k].symbolIs

FirstsCalculated ==
  pcG \in {"calculateFollows", "setPrecedence", "preComputeGotoStates",
           "generateStates", "createGotoState", "addClosure",
           "generateSpontaneousLookahead", "generateGotoItems",
           "propagateLookaheads", "insert", "generateTransitions",
           "generateRegexParser", "createParserFromRegex"}

\* a production of non-terminal iS with at least two symbols, the first of
\* them nullable
HasNullablePrefix(iS) ==
  \E k \in 1 .. Len(productions) :
    /\ productions[k].iLhs = iS
    /\ Len(productions[k].iRhsList) >= 2
    /\ symbols[productions[k].iRhsList[1] + 1].nullable

\* C14: after calculateFirsts, the firsts of every non-terminal S are exactly
\* the symbols other than non-terminals that begin a string derived from S,
\* and S is nullable iff the empty string derives from S.
C14_FirstsExact ==
  FirstsCalculated =>
    \A iS \in 0 .. Len(symbols) - 1 :
      symbols[iS + 1].type = "NON_TERMINAL_SYMBOL" =>
        /\ SeqToSet(symbols[iS + 1].firsts) = RefFirsts(productions, symbols)[iS]
        /\ symbols[iS + 1].nullable <=> iS \in RefNullable(productions, {})

\* C14 witness: calculateFirsts has run on a grammar with a nullable
\* non-terminal that has two firsts and a production beginning with a
\* nullable symbol
C14_Witness ==
  /\ pcG = "calculateFollows"
  /\ \E iS \in 0 .. Len(symbols) - 1 :
       /\ symbols[iS + 1].type = "NON_TERMINAL_SYMBOL"
       /\ symbols[iS + 1].nullable
       /\ Len(symbols[iS + 1].firsts) >= 2
       /\ HasNullablePrefix(iS)

\* the stages of the constructor that follow calculateFollows
FollowsCalculated == FirstsCalculated /\ pcG # "calculateFollows"

\* the positions <<k, i>> at which symbol x occurs in the rhs of a production
RefOccurrences(prods, x) ==
  {ki \in UNION {{<<k, i>> : i \in 1 .. Len(prods[k].iRhsList)} :
                   k \in 1 .. Len(prods)} :
     prods[ki[1]].iRhsList[ki[2]] = x}

\* what the production A -> X1 ... Xn puts into the follow of Xi: the firsts
\* of the symbols after Xi up to and including the first that is not
\* nullable and, when all of them are nullable, the follow of A
RefFollowAt(prods, N, F, Fo, ki) ==
  RefFirstOfSeq(F, N, prods[ki[1]].iRhsList, ki[2] + 1)
    \cup (IF RefNullableSeq(N, prods[ki[1]].iRhsList, ki[2] + 1)
          THEN Fo[prods[ki[1]].iLhs] ELSE {})

RECURSIVE RefFollow(_, _, _, _)
RefFollowNext(prods, N, F, Fo, Fo2) ==
  IF Fo2 = Fo THEN Fo ELSE RefFollow(prods, N, F, Fo2)

RefFollow(prods, N, F, Fo) ==
  RefFollowNext(prods, N, F, Fo,
    [x \in DOMAIN Fo |->
       Fo[x] \cup UNION {RefFollowAt(prods, N, F, Fo, ki) :
                           ki \in RefOccurrences(prods, x)}])

\* FOLLOW of every symbol: the least fixpoint, .end following .start
RefFollows(prods, syms) ==
  RefFollow(prods, RefNullable(prods, {}), RefFirsts(prods, syms),
            [x \in 0 .. Len(syms) - 1 |->
               IF x = iStartSymbol THEN {iEndSymbol} ELSE {}])

\* C15 as stated: after calculateFollows, the follows of every symbol are the
\* least fixpoint of the rules: .end follows .start; in A -> X1 ... Xn the
\* firsts of X(i+1) ... Xn follow Xi, and so does the follow of A when that
\* tail is nullable (for A -> 'a' 'b' 'c': 'b' follows 'a', 'c' does not).
C15_AsStated ==
  FollowsCalculated =>
    \A iS \in 0 .. Len(symbols) - 1 :
      SeqToSet(symbols[iS + 1].follows) = RefFollows(productions, symbols)[iS]

\* the name and the kind of symbol i of the symbols syms; an id out of range
\* denotes no symbol
Denoted(syms, i) ==
  IF i + 1 \in 1 .. Len(syms) THEN <<syms[i + 1].name, syms[i + 1].type>> ELSE <<>>

\* the alias removed by the turn of the optimizer, its production and the
\* terminal it stands for
iAlias == FirstRedundant(symbols, productions, 0)

iAliasProduction == symbols[iAlias + 1].iProductions[1]

iAliasTerminal == productions[iAliasProduction + 1].iRhsList[1]

\* what symbol i of the grammar before the removal denotes after it
DenotedAfter(i) ==
  IF i = iAlias THEN Denoted(symbols, iAliasTerminal) ELSE Denoted(symbols, i)

\* the place before the removal of the production that is at k (from 1) after
KeptProduction(k) == IF k - 1 < iAliasProduction THEN k ELSE k + 1

\* the turn of the optimizer removes an alias
RemovesAlias ==
  /\ pcG = "grammarOptimize"
  /\ Len(symbols') = Len(symbols) - 1

\* the references of the production at k after the removal denote what
\* those of the same production denoted before, the alias apart
SameProduction(k) ==
  LET old == productions[KeptProduction(k)]
      new == productions'[k]
  IN /\ Denoted(symbols', new.iLhs) = DenotedAfter(old.iLhs)
     /\ Len(new.iRhsList) = Len(old.iRhsList)
     /\ \A r \in 1 .. Len(old.iRhsList) :
          Denoted(symbols', new.iRhsList[r]) = DenotedAfter(old.iRhsList[r])
     /\ Len(new.precedenceSymbol) = Len(old.precedenceSymbol)
     /\ \A r \in 1 .. Len(old.precedenceSymbol) :
          Denoted(symbols', new.precedenceSymbol[r])
            = DenotedAfter(old.precedenceSymbol[r])
     /\ new.action = old.action

\* symbol j (from 1) after the removal has the productions that the symbol of
\* the same name and kind had before
SameProductionsOf(j) ==
  \E i \in 1 .. Len(symbols) :
    /\ i - 1 # iAlias
    /\ Denoted(symbols, i - 1) = Denoted(symbols', j - 1)
    /\ Len(symbols'[j].iProductions) = Len(symbols[i].iProductions)
    /\ \A q \in 1 .. Len(symbols[i].iProductions) :
         /\ symbols'[j].iProductions[q] + 1 \in 1 .. Len(productions')
         /\ KeptProduction(symbols'[j].iProductions[q] + 1)
              = symbols[i].iProductions[q] + 1

\* in the fragment  number: "[0-9]+"; expr: number;  the removal of number
\* leaves expr declared by the regex itself
C16_Example ==
  (grammar = numberGrammar /\ symbols[iAlias + 1].name = <<110, 117, 109, 98, 101, 114>>) =>
    \E k \in 1 .. Len(productions') :
      /\ symbols'[productions'[k].iLhs + 1].name = <<101, 120, 112, 114>>
      /\ Len(productions'[k].iRhsList) = 1
      /\ Denoted(symbols', productions'[k].iRhsList[1])
           = <<<<91, 48, 45, 57, 93, 43>>, "TERMINAL_SYMBOL">>

C16_Step ==
  RemovesAlias =>
    /\ \A j \in 1 .. Len(symbols') :
         Denoted(symbols', j - 1) # Denoted(symbols, iAlias)
    /\ Len(productions') = Len(productions) - 1
    /\ \A k \in 1 .. Len(productions') : SameProduction(k)
    /\ \A j \in 1 .. Len(symbols') : SameProductionsOf(j)
    /\ C16_Example

BodyClosed(ref) == matchChar(matchWhiteSpaceOrComments(ref).ref, 125).ok

\* C17 as stated: a grammar text whose body is not closed by '}' is rejected
\* with a fatal error and no grammar is constructed from it, also when the
\* text ends after the last statement.
C17_AsStated ==
  (pcG \notin {"addGenericSymbols", "parseTheGrammar"} /\ ~BodyClosed(matchingBack)) =>
    pcG = "error" /\ grammarError = "Unfinished parsing!"

\* the four ids set by addGenericSymbols index the symbols it added
ReservedSymbolsKept ==
  /\ Len(symbols) >= 4
  /\ Denoted(symbols, iStartSymbol) = <<startName, "NON_TERMINAL_SYMBOL">>
  /\ Denoted(symbols, iEndSymbol) = <<endName, "END_SYMBOL">>
  /\ Denoted(symbols, iErrorSymbol) = <<errorName, "NULL_SYMBOL">>
  /\ Denoted(symbols, iWhitespaceSymbol) = <<whitespaceName, "NULL_SYMBOL">>

\* production 0 is the production of .start added with the first lhs
StartProductionKept ==
  /\ productions # <<>>
  /\ productions[1].iLhs = iStartSymbol
  /\ Len(productions[1].iRhsList) = 1
  /\ symbols[iStartSymbol + 1].iProductions = <<0>>

\* C18 as stated: once the grammar is parsed and checked, and after any
\* number of removals by the optimizer, iStartSymbol, iEndSymbol, iErrorSymbol
\* and iWhitespaceSymbol index .start, .end, .error and .whitespace with their
\* kinds and production 0 is .start : S0, also for  g { s: 'a'; }.
C18_AsStated ==
  pcG \notin {"addGenericSymbols", "parseTheGrammar", "checkTheGrammar", "error"} =>
    ReservedSymbolsKept /\ StartProductionKept

\* the transitions of the current dState whose [beg, end) holds the next char
\* of the input
ApplicableTransitions ==
  {t \in 1 .. Len(transitions) :
     /\ transitions[t].iDStateFrom = dState
     /\ nRemoved < Len(input)
     /\ transitions[t].beg <= input[nRemoved + 1]
     /\ input[nRemoved + 1] < transitions[t].end}

\* the value returned when no transition applies in the current dState
ResultOfDState ==
  IF dStates[dState + 1].accepting
  THEN [matched |-> TRUE, len |-> nRemoved, iToken |-> dStates[dState + 1].iToken]
  ELSE [matched |-> FALSE]

C19_Step ==
  pcR = "parsing" =>
    IF ApplicableTransitions # {}
    THEN /\ input[nRemoved + 1] # 0
         /\ nRemoved' = nRemoved + 1
         /\ dState' \in {transitions[t].nextDState : t \in ApplicableTransitions}
         /\ parseResult' = parseResult
    ELSE /\ nRemoved' = nRemoved
         /\ pcR' = "parsed"
         /\ parseResult' = ResultOfDState

\* C19: parse steps from dState 0; while a transition of the current dState
\* holds the next char it consumes that char, which is never '\0' nor past
\* the end of the input; when none does, it returns the consumed prefix and
\* the token of the dState iff the dState is accepting, no match otherwise;
\* the number of consumed chars never decreases.
C19_GreedyParse ==
  /\ [][C19_Step]_vars
  /\ [][pcR = "parsing" => nRemoved' >= nRemoved]_vars
  /\ [](nRemoved <= Len(input))
  /\ []((pcR = "parsed" /\ parseResult.matched) => parseResult.len = nRemoved)

\* C19 witness: the parse of "a\0b" by ".*b" is over, one char consumed
C19_Witness ==
  /\ pcR = "parsed"
  /\ input = <<97, 0, 98>>
  /\ regexTokens # <<>> /\ regexTokens[1].str = DotPattern
  /\ nRemoved = 1
  /\ ~parseResult.matched

\* bound of the words compared with the compiled parser, and their chars:
\* 'a', 'b', 'h', '0', '.'
MaxWordLen == 3
WordChars == {97, 98, 104, 48, 46}
Words == UNION {[1 .. k -> WordChars] : k \in 0 .. MaxWordLen}

\* u is a prefix of a word of the language of the node n
RECURSIVE PrefixOfWord(_, _)
PrefixOfWord(n, u) ==
  CASE n.type = "CHAR" ->
         /\ n.begChar < n.endChar
         /\ u = <<>> \/ (Len(u) = 1 /\ n.begChar <= u[1] /\ u[1] < n.endChar)
    [] n.type = "TOKEN" -> u = <<>>
    [] n.type = "OR" -> PrefixOfWord(n.subNodes[1], u) \/ PrefixOfWord(n.subNodes[2], u)
    [] n.type = "AND" ->
         \/ PrefixOfWord(n.subNodes[1], u) /\ PrefixOfWord(n.subNodes[2], <<>>)
         \/ \E k \in 0 .. Len(u) :
              /\ Matches(n.subNodes[1], SubSeq(u, 1, k))
              /\ PrefixOfWord(n.subNodes[2], SubSeq(u, k + 1, Len(u)))
    [] n.type = "OPT" -> u = <<>> \/ PrefixOfWord(n.subNodes[1], u)
    [] n.type = "MANY" ->
         \/ u = <<>>
         \/ \E k \in 0 .. Len(u) :
              /\ Matches(n, SubSeq(u, 1, k))
              /\ PrefixOfWord(n.subNodes[1], SubSeq(u, k + 1, Len(u)))
    [] n.type = "NONZERO" ->
         \E k \in 0 .. Len(u) :
           /\ k = 0 \/ Matches(n, SubSeq(u, 1, k))
           /\ PrefixOfWord(n.subNodes[1], SubSeq(u, k + 1, Len(u)))
    [] OTHER -> FALSE

\* the dState reached from dS on the char c, -1 when no transition of dS
\* holds c
DfaStep(dS, c) ==
  IF dS # -1 /\ \E t \in 1 .. Len(transitions) :
                  /\ transitions[t].iDStateFrom = dS
                  /\ transitions[t].beg <= c /\ c < transitions[t].end
  THEN transitions[CHOOSE t \in 1 .. Len(transitions) :
                     /\ transitions[t].iDStateFrom = dS
                     /\ transitions[t].beg <= c /\ c < transitions[t].end].nextDState
  ELSE -1

\* the dState reached from dState 0 on the first n chars of u
RECURSIVE DfaRun(_, _)
DfaRun(u, n) == IF n = 0 THEN 0 ELSE DfaStep(DfaRun(u, n - 1), u[n])

\* d is one of the dStates and it is accepting
AcceptingDState(d) == d + 1 \in 1 .. Len(dStates) /\ dStates[d + 1].accepting

\* the word u against the patterns whose trees are given
WordRecognised(trees, u, d) ==
  /\ d # -1 <=> \E i \in DOMAIN trees : PrefixOfWord(trees[i], u)
  /\ d # -1 => (AcceptingDState(d) <=> \E i \in DOMAIN trees : Matches(trees[i], u))

C21_AsStated ==
  (pcR # "create" /\ regexTokens # <<>> /\ regexTokens[1].str \in AlternationPatterns) =>
    /\ pcR # "error"
    /\ regexTokens[1].str = <<97, 124, 98, 124, 99>> =>
         \A c \in {97, 98, 99} : Matches(PatternTree(1), <<c>>)
    /\ regexTokens[1].str = <<40, 97, 124, 98, 124, 99, 41, 100>> =>
         \A c \in {97, 98, 99} : Matches(PatternTree(1), <<c, 100>>)

\* the position in body (the text after the opening delimiter), from i on, of
\* the first delimiter that is not escaped, '\' escaping the one char that
\* follows it; 0 when a line break or the end of the text comes first
RECURSIVE RefClosingDelimiter(_, _, _)
RefClosingDelimiter(body, delim, i) ==
  IF i > Len(body) \/ body[i] \in {10, 13} THEN 0
  ELSE IF body[i] = 92
  THEN IF i + 1 > Len(body) \/ body[i + 1] \in {10, 13} THEN 0
       ELSE RefClosingDelimiter(body, delim, i + 2)
  ELSE IF body[i] = delim THEN i
  ELSE RefClosingDelimiter(body, delim, i + 1)

\* the call closed the span at position k of the text after the delimiter
ClosedAt(k) ==
  /\ ~matchingFailed /\ matchingError = ""
  /\ matchingRef = SubSeq(matchingBack, k + 2, Len(matchingBack))

\* C22 as stated: matchLiteral and matchRegex end the quoted span at the first
\* delimiter that is not escaped, a backslash escaping the single char after
\* it, so that the literal '\\' is closed by its second quote.
C22_AsStated ==
  \A call \in {<<"matchLiteral", 39>>, <<"matchRegex", 34>>} :
    (/\ matchingCall = call[1]
     /\ matchingBack # <<>> /\ Head(matchingBack) = call[2]
     /\ RefClosingDelimiter(Tail(matchingBack), call[2], 1) > 1) =>
      ClosedAt(RefClosingDelimiter(Tail(matchingBack), call[2], 1))

\* the position of the '*' of the first "*/" of txt at or after i, 0 when
\* there is none
RefCommentEnd(txt, i) ==
  IF \E k \in i .. Len(txt) - 1 : txt[k] = 42 /\ txt[k + 1] = 47
  THEN CHOOSE k \in i .. Len(txt) - 1 :
         /\ txt[k] = 42 /\ txt[k + 1] = 47
         /\ \A j \in i .. k - 1 : ~(txt[j] = 42 /\ txt[j + 1] = 47)
  ELSE 0

\* txt opens a block comment that is closed
ClosedComment(txt) ==
  Len(txt) >= 4 /\ txt[1] = 47 /\ txt[2] = 42 /\ RefCommentEnd(txt, 3) # 0

\* the cursor is in the text that follows the comment, and right after the
\* comment when neither white space nor a comment follows it
AfterComment(txt, cur, k) ==
  /\ Len(cur) <= Len(txt) - (k + 1)
  /\ cur = SubSeq(txt, Len(txt) - Len(cur) + 1, Len(txt))
  /\ (Len(txt) > k + 1 /\ txt[k + 2] \notin {32, 12, 10, 13, 9, 11, 47}) =>
       Len(cur) = Len(txt) - (k + 1)

\* C23 as stated: matchWhiteSpaceOrComments on a block comment returns true
\* with the cursor after the first "*/" that follows the "/*" (and after the
\* white space and comments that come next), also when the body of the
\* comment ends with '*' as in "/* a **/".
C23_AsStated ==
  (matchingCall = "matchWhiteSpaceOrComments" /\ ClosedComment(matchingBack)) =>
    /\ ~matchingFailed /\ matchingError = ""
    /\ AfterComment(matchingBack, matchingRef, RefCommentEnd(matchingBack, 3))


\* the items that a step of the propagation loop appended to the next frontier
QueuedByStep ==
  SubSeq(nextLookaheads', Len(nextLookaheads) + 1, Len(nextLookaheads'))

\* the targets of the frontier element of the step whose lookahead grew, in
\* the order of iPropagateToItems
GrownByStep ==
  SelectSeq(lookaheads[iLookaheadsToInsert[iLoop + 1] + 1].iPropagateToItems,
            LAMBDA t : lookaheads'[t + 1].symbolIs # lookaheads[t + 1].symbolIs)

\* C24 as stated: a step of the propagation loop puts into the next frontier
\* exactly the targets whose lookahead bitset grew by the or of the source; a
\* target that already holds every bit of the source is not queued again.
C24_AsStated ==
  [][pcG = "insert" /\ iLoop < Len(iLookaheadsToInsert) =>
       QueuedByStep = GrownByStep]_vars

\* a step of the propagation loop queues exactly the targets whose bitset is
\* not equal to that of the source before the or
C24_QueuedWhenDifferent ==
  [][pcG = "insert" /\ iLoop < Len(iLookaheadsToInsert) =>
       QueuedByStep =
         SelectSeq(lookaheads[iLookaheadsToInsert[iLoop + 1] + 1].iPropagateToItems,
                   LAMBDA t : lookaheads[t + 1].symbolIs
                                # lookaheads[iLookaheadsToInsert[iLoop + 1] + 1].symbolIs)]_vars


\* the stages of the constructor that follow generateStates
StatesGenerated ==
  pcG \in {"generateSpontaneousLookahead", "generateGotoItems",
           "propagateLookaheads", "insert", "generateTransitions",
           "generateRegexParser", "createParserFromRegex"}

\* C25 as stated: after generateStates no two states hold the same set of
\* items, in whatever order the items of a goto state were listed.
C25_AsStated ==
  StatesGenerated =>
    \A i, j \in 1 .. Len(stateItems) :
      i # j => SeqToSet(stateItems[i]) # SeqToSet(stateItems[j])

\* after generateStates no two states hold the same sequence of items
C25_DistinctVectors ==
  StatesGenerated =>
    \A i, j \in 1 .. Len(stateItems) : i # j => stateItems[i] # stateItems[j]


\* an LR(0) item is <<k, position>>: production k (from 1), dot before
\* position + 1.  The items that the closure adds for the item it
RefItemsAfter0(prods, it) ==
  IF it[2] >= Len(prods[it[1]].iRhsList) THEN {}
  ELSE {<<q, 0>> : q \in {q \in 1 .. Len(prods) :
                            prods[q].iLhs = prods[it[1]].iRhsList[it[2] + 1]}}

RECURSIVE RefClosure0(_, _)
RefClosure0Next(prods, I, I2) == IF I2 = I THEN I ELSE RefClosure0(prods, I2)

\* the LR(0) closure of the set I of items
RefClosure0(prods, I) ==
  RefClosure0Next(prods, I, I \cup UNION {RefItemsAfter0(prods, it) : it \in I})

\* the LR(0) goto of the set I of items on the symbol X
RefGoto0(prods, I, X) ==
  RefClosure0(prods,
              {<<it[1], it[2] + 1>> :
                 it \in {it \in I : /\ it[2] < Len(prods[it[1]].iRhsList)
                                    /\ prods[it[1]].iRhsList[it[2] + 1] = X}})

\* the items of the state s (from 1) as a set of LR(0) items
ItemSetOf(s) ==
  {<<items[stateItems[s][k] + 1].iProduction + 1,
     items[stateItems[s][k] + 1].position>> : k \in 1 .. Len(stateItems[s])}

\* the stages between generateStates and generateTransitions, where the
\* transitions are the shifts emplaced by generateStates
ShiftsOnly ==
  pcG \in {"generateSpontaneousLookahead", "generateGotoItems",
           "propagateLookaheads", "insert"}

\* the states that the shifts of state s on symbol X lead to
ShiftTargets(s, X) ==
  {stateTransitions[s][t].iStateOrProduction + 1 :
     t \in {t \in 1 .. Len(stateTransitions[s]) :
              /\ stateTransitions[s][t].iSymbol = X
              /\ stateTransitions[s][t].type = "SHIFT"}}

\* C26: after generateStates the states and their shifts are the LR(0)
\* automaton of the productions: the items of every state are closed under
\* the LR(0) closure, and a state has a shift on a symbol X other than .end
\* exactly when the LR(0) goto of its items on X is not empty, the items of
\* the target being those of that goto; the gotos that createGotoState took
\* from the states before their closure are those of the closed states.
C26_LR0Automaton ==
  ShiftsOnly =>
    \A s \in 1 .. Len(stateItems) :
      /\ RefClosure0(productions, ItemSetOf(s)) = ItemSetOf(s)
      /\ \A X \in 0 .. Len(symbols) - 1 :
           X # iEndSymbol =>
             /\ (ShiftTargets(s, X) # {})
                  = (RefGoto0(productions, ItemSetOf(s), X) # {})
             /\ \A d \in ShiftTargets(s, X) :
                  /\ d \in 1 .. Len(stateItems)
                  /\ ItemSetOf(d) = RefGoto0(productions, ItemSetOf(s), X)

\* C26 witness: the states are generated and a state other than the start
\* state, whose goto states were taken before its closure, holds an item
\* added by the closure and has a shift on the first symbol of that item
C26_Witness ==
  /\ ShiftsOnly
  /\ \E s \in 2 .. Len(stateItems) :
       \E it \in ItemSetOf(s) :
         /\ it[2] = 0
         /\ Len(productions[it[1]].iRhsList) > 0
         /\ ShiftTargets(s, productions[it[1]].iRhsList[1]) # {}
         /\ <<it[1], 1>>
              \in UNION {ItemSetOf(d) :
                           d \in ShiftTargets(s, productions[it[1]].iRhsList[1])}


C27_OthersEnd ==
  (pcR = "build" /\ regexTokens[1].str \notin NestedStarPatterns)
    ~> (pcR \in {"ready", "error"})

\* for "(a*)*", "(a+)+" and "(a|.)*" every label from the third on is the
\* label before it written twice, hence longer than every label before it
\* and equal to none
C27_LabelsDouble ==
  (pcR = "build" /\ regexTokens[1].str \in NestedStarPatterns) =>
    \A k \in 3 .. Len(dStateLabels) :
      dStateLabels[k] = dStateLabels[k - 1] \o dStateLabels[k - 1]

\* the loop on the dStates of "(a*)*", "(a+)+" or "(a|.)*" has met a label
\* of more than MaxLabelLen leaves, all the labels before it being processed
C27_LabelsGrow ==
  /\ pcR = "build"
  /\ regexTokens[1].str \in NestedStarPatterns
  /\ iDState = Len(dStateLabels) - 1
  /\ Len(dStateLabels[Len(dStateLabels)]) > MaxLabelLen


\* the symbol occurrences of a statement of the body of a grammar
OccurrencesOf(stmt) ==
  IF stmt.stmt = "production"
  THEN UNION {SeqToSet(stmt.alts[k].rhs) \cup SeqToSet(stmt.alts[k].precedence) :
                k \in 1 .. Len(stmt.alts)}
  ELSE IF stmt.stmt = "associativity" THEN SeqToSet(stmt.syms)
  ELSE {}

\* the texts of the literals '...' of the grammar g
LiteralTexts(g) ==
  {tok.text : tok \in {t \in UNION {OccurrencesOf(g[k]) : k \in 1 .. Len(g)} :
                         t.kind = "literal"}}

\* C28 as stated: each token that generateRegexParser makes of a literal
\* '...' of the grammar is compiled, and the words it matches are the text of
\* the literal and no other.
C28_AsStated ==
  (pcG = "createParserFromRegex" /\ pcR # "create") =>
    \A i \in 1 .. Len(regexTokens) :
      regexTokens[i].str \in LiteralTexts(grammar) =>
        /\ parseTreeFromRegex(<<regexTokens[i]>>, 0) # NoNode
        /\ \A w \in Words \cup {regexTokens[i].str} :
             Matches(PatternTree(i), w) <=> w = regexTokens[i].str

\* the literals made of chars that the regex parser takes as such are
\* compiled into tokens that match their text and no other word
C28_PlainLiterals ==
  (pcG = "createParserFromRegex" /\ pcR # "create") =>
    \A i \in 1 .. Len(regexTokens) :
      (/\ regexTokens[i].str \in LiteralTexts(grammar)
       /\ \A k \in 1 .. Len(regexTokens[i].str) :
            ~InStr(<<124, 42, 43, 63, 40, 41, 46, 91, 92>>, regexTokens[i].str[k])) =>
        /\ parseTreeFromRegex(<<regexTokens[i]>>, 0) # NoNode
        /\ \A w \in Words \cup {regexTokens[i].str} :
             Matches(PatternTree(i), w) <=> w = regexTokens[i].str


\* C29 as stated: in every turn of the loops of generateGotoItems the read
\* production.iRhsList[item.position] is inside the rhs, also for the items
\* with the dot at the end that sit in a state with transitions, and the
\* item that findItem looks up in the state of the transition is found.
C29_AsStated ==
  pcG = "generateGotoItems" =>
    \A s \in 1 .. Len(stateItems) :
      ~GotoItemsUndefined(items, stateItems, stateTransitions, productions, s - 1)

\* the item looked up by generateGotoItems for a transition on the symbol
\* after the dot of an item is found in the state of the transition
C29_TargetsFound ==
  pcG = "generateGotoItems" =>
    \A s \in 1 .. Len(stateItems) :
      \A k \in 1 .. Len(stateItems[s]) :
        Find(GotoItemsOf(items, stateItems, productions, stateTransitions[s],
                         stateItems[s][k], 1), -1) = 0

\* a state with a transition holds an item with the dot at the end of a
\* non-empty rhs, and the construction went on to the undefined stage
C29_ReadPastEnd ==
  /\ pcG = "undefined"
  /\ \E s \in 1 .. Len(stateItems) :
       /\ stateTransitions[s] # <<>>
       /\ \E k \in 1 .. Len(stateItems[s]) :
            ReadsPastRhs(items, productions, stateItems[s][k])


\* words that hold the upper end of a range of the pattern: "9" for "[0-9]",
\* "z" for "[a-z]", "z", "Z", "az", "aZ", "a9" for the XML name pattern
UpperEndWords(pattern) ==
  IF pattern = <<91, 48, 45, 57, 93>> THEN {<<57>>}
  ELSE IF pattern = <<91, 97, 45, 122, 93>> THEN {<<122>>}
  ELSE {<<122>>, <<90>>, <<97, 122>>, <<97, 90>>, <<97, 57>>}

\* words of the chars of the ranges below their upper ends: "0", "8" for
\* "[0-9]", "a", "y" for "[a-z]", "a", "Y", "ay", "A8", "a_" for the XML name
\* pattern
InsideWords(pattern) ==
  IF pattern = <<91, 48, 45, 57, 93>> THEN {<<48>>, <<56>>}
  ELSE IF pattern = <<91, 97, 45, 122, 93>> THEN {<<97>>, <<121>>}
  ELSE {<<97>>, <<89>>, <<97, 121>>, <<65, 56>>, <<97, 95>>}

\* C30 as stated: the parser compiled from "[0-9]", "[a-z]" or the XML name
\* pattern accepts the words that hold the upper end of a range x-y.
C30_AsStated ==
  (pcR = "ready" /\ regexTokens[1].str \in RangePatterns) =>
    \A w \in UpperEndWords(regexTokens[1].str) :
      /\ Matches(PatternTree(1), w)
      /\ AcceptingDState(DfaRun(w, Len(w)))

\* the parser accepts the words of the chars from x to the char before y,
\* and none of the words that hold y
C30_UpperEndExcluded ==
  (pcR = "ready" /\ regexTokens[1].str \in RangePatterns) =>
    /\ \A w \in InsideWords(regexTokens[1].str) :
         Matches(PatternTree(1), w) /\ AcceptingDState(DfaRun(w, Len(w)))
    /\ \A w \in UpperEndWords(regexTokens[1].str) :
         ~Matches(PatternTree(1), w) /\ ~AcceptingDState(DfaRun(w, Len(w)))

=============================================================================
